---------------------------- MODULE Spec2Model ----------------------------
(***************************************************************************)
(* VoiceBill: the voice-transcript parsing and segmentation engine         *)
(* (src/services/voiceParser.ts) and the Tamil linguistic formalization    *)
(* engine it calls (tamilLinguisticEngine, src/unnamed/part_001).          *)
(*                                                                         *)
(* A JavaScript string is modelled as the sequence of its UTF-16 code      *)
(* units (97 is "a", 2980 is the Tamil letter TA), so that the regular     *)
(* expressions of the program are modelled character by character.  A      *)
(* JavaScript number is modelled exactly, as a reduced fraction <<n, d>>.  *)
(***************************************************************************)
EXTENDS Integers, Sequences, FiniteSets, TLC

(***************************************************************************)
(* Values of the JavaScript run time                                       *)
(***************************************************************************)
\* null (and undefined): no code unit and no fraction is negative
NULL == <<-1>>
\* the outcome of a call that ended in an uncaught TypeError
THREW == <<-2>>
\* a truthy value that is not a string (a function, Object.prototype)
NONSTRING == <<-3>>

Min2(a, b) == IF a <= b THEN a ELSE b
Max2(a, b) == IF a >= b THEN a ELSE b
SetMin(S) == CHOOSE x \in S : \A y \in S : x <= y
SetMax(S) == CHOOSE x \in S : \A y \in S : x >= y

\* the concatenation of the strings of a sequence (Array.prototype.join(''))
RECURSIVE Concat(_)
Concat(ss) == IF ss = <<>> THEN <<>> ELSE Head(ss) \o Concat(Tail(ss))

(***************************************************************************)
(* Character classes of the regular expressions                            *)
(***************************************************************************)
\* \d
IsDigit(c) == c >= 48 /\ c <= 57
\* \w : [A-Za-z0-9_]
IsWordChar(c) ==
  \/ IsDigit(c)
  \/ (c >= 65 /\ c <= 90)
  \/ (c >= 97 /\ c <= 122)
  \/ c = 95
\* \s : the white space and line terminator code units
IsSpace(c) ==
  \/ c \in {9, 10, 11, 12, 13, 32, 160, 5760, 8232, 8233, 8239, 8287, 12288, 65279}
  \/ (c >= 8192 /\ c <= 8202)
\* String.prototype.toLowerCase and toUpperCase, one code unit at a time; the
\* texts of the model hold ASCII, Tamil and punctuation, where only A-Z and a-z
\* have a case
LowerChar(c) == IF c >= 65 /\ c <= 90 THEN c + 32 ELSE c
UpperChar(c) == IF c >= 97 /\ c <= 122 THEN c - 32 ELSE c
toLowerCase(s) == [i \in 1..Len(s) |-> LowerChar(s[i])]

\* String.prototype.trim
trim(s) ==
  LET keep == {i \in 1..Len(s) : ~IsSpace(s[i])}
  IN IF keep = {} THEN <<>> ELSE SubSeq(s, SetMin(keep), SetMax(keep))

\* s.replace(/\s+/g, ' ') : every run of white space becomes one space
CollapseSpaces(s) ==
  LET marked == [i \in 1..Len(s) |->
                   IF ~IsSpace(s[i]) THEN s[i]
                   ELSE IF i > 1 /\ IsSpace(s[i - 1]) THEN -1 ELSE 32]
  IN SelectSeq(marked, LAMBDA c : c # -1)

\* the key occurs in the text at position i (the texts matched with the i flag
\* are compared through toLowerCase)
StartsAt(t, i, key) ==
  /\ i >= 1
  /\ i + Len(key) - 1 <= Len(t)
  /\ \A k \in 1..Len(key) : t[i + k - 1] = key[k]
StartsAtCI(t, i, key) ==
  /\ i >= 1
  /\ i + Len(key) - 1 <= Len(t)
  /\ \A k \in 1..Len(key) : LowerChar(t[i + k - 1]) = LowerChar(key[k])

\* the first index at or after `from` where sub occurs in t, 0 when none
\* (String.prototype.indexOf, one based)
IndexOf(t, sub, from) ==
  LET at == {i \in from..(Len(t) - Len(sub) + 1) : StartsAt(t, i, sub)}
  IN IF at = {} THEN 0 ELSE SetMin(at)

\* text.replace(sub, rep) with a string pattern: the first occurrence only
ReplaceFirst(t, sub, rep) ==
  LET i == IndexOf(t, sub, 1)
  IN IF i = 0 THEN t
     ELSE SubSeq(t, 1, i - 1) \o rep \o SubSeq(t, i + Len(sub), Len(t))

\* the last index of the run of characters of a class that starts at i
\* (i - 1 when t[i] is not of the class): a greedy \d+ or \s*
DigitsEnd(t, i) ==
  LET stops == {j \in i..Len(t) : ~IsDigit(t[j])}
  IN IF stops = {} THEN Len(t) ELSE SetMin(stops) - 1
SpacesEnd(t, i) ==
  LET stops == {j \in i..Len(t) : ~IsSpace(t[j])}
  IN IF stops = {} THEN Len(t) ELSE SetMin(stops) - 1
\* the last index of a greedy \d+(?:\.\d+)? that starts at i (i - 1: no match)
NumberEnd(t, i) ==
  LET e == DigitsEnd(t, i)
  IN IF e < i THEN i - 1
     ELSE IF e + 2 <= Len(t) /\ t[e + 1] = 46 /\ IsDigit(t[e + 2])
          THEN DigitsEnd(t, e + 2)
          ELSE e

\* array.sort((a, b) => b.length - a.length): a stable sort, longest first
RECURSIVE SortFromLength(_, _)
SortFromLength(arr, n) ==
  IF n = 0 THEN <<>>
  ELSE SelectSeq(arr, LAMBDA s : Len(s) = n) \o SortFromLength(arr, n - 1)
SortByLengthDesc(arr) ==
  IF arr = <<>> THEN <<>>
  ELSE SortFromLength(arr, SetMax({Len(arr[i]) : i \in 1..Len(arr)}))

(***************************************************************************)
(* Numbers                                                                 *)
(***************************************************************************)
RECURSIVE Gcd(_, _)
Gcd(a, b) == IF b = 0 THEN a ELSE Gcd(b, a % b)
\* A number is the fraction <<n, d>> in lowest terms; Infinity is <<1, 0>>
\* and NaN is <<0, 0>>, so that a division by Infinity gives 0 and the
\* division of Infinity by Infinity gives NaN, as for the doubles
Infinity == <<1, 0>>
NaN == <<0, 0>>
Frac(n, d) == IF n = 0 /\ d = 0 THEN NaN ELSE LET g == Gcd(n, d) IN <<n \div g, d \div g>>
Divide(p, q) == Frac(p[1] * q[2], p[2] * q[1])
RECURSIVE Pow10(_)
Pow10(k) == IF k = 0 THEN 1 ELSE 10 * Pow10(k - 1)

\* the value of a string of decimal digits (parseInt)
RECURSIVE parseInt(_)
parseInt(s) ==
  IF s = <<>> THEN 0 ELSE 10 * parseInt(SubSeq(s, 1, Len(s) - 1)) + (s[Len(s)] - 48)

\* the greatest double, about 1.8 * 10^308, has MaxDoubleDigits digits
MaxDoubleDigits == 309

\* how many digits the integer part of a numeral has from its first digit
\* that is not 0 on
IntegerDigits(s) ==
  Cardinality({i \in 1..Len(s) :
                 /\ \A j \in 1..i : s[j] # 46
                 /\ \E j \in 1..i : s[j] # 48})

\* parseFloat of a string matched by \d+(?:\.\d+)?: a numeral of more than
\* MaxDoubleDigits digits is beyond every double and gives Infinity
parseFloat(s) ==
  LET dot == {i \in 1..Len(s) : s[i] = 46}
  IN IF IntegerDigits(s) > MaxDoubleDigits THEN Infinity
     ELSE IF dot = {} THEN Frac(parseInt(s), 1)
     ELSE LET p == SetMin(dot)
          IN Frac(parseInt(SubSeq(s, 1, p - 1) \o SubSeq(s, p + 1, Len(s))),
                  Pow10(Len(s) - p))

\* String(n) of a non-negative integer
RECURSIVE IntToString(_)
IntToString(n) ==
  IF n < 10 THEN <<48 + n>> ELSE IntToString(n \div 10) \o <<48 + (n % 10)>>

\* the digits of the fraction r / d, 0 <= r < d, d a divisor of a power of ten
RECURSIVE FractionDigits(_, _)
FractionDigits(r, d) ==
  IF r = 0 THEN <<>>
  ELSE <<48 + ((10 * r) \div d)>> \o FractionDigits((10 * r) % d, d)

\* String(x) of a number with a finite decimal expansion (Number::toString
\* prints the shortest decimal: no leading zero, no trailing zero)
NumberToString(x) ==
  IF x = Infinity THEN <<73, 110, 102, 105, 110, 105, 116, 121>>
  ELSE IF x[2] = 1 THEN IntToString(x[1])
  ELSE IntToString(x[1] \div x[2]) \o <<46>> \o FractionDigits(x[1] % x[2], x[2])

(***************************************************************************)
(* The module-level tables, in declaration order.  A Record<string,string> *)
(* is the sequence of its <<key, value>> pairs in Object.keys order.       *)
(***************************************************************************)
\* src/IMPLEMENTATION_SUMMARY.md:819-827
RATE_KEYWORDS_DECLARED ==
  <<
    <<114,117,112,101,101,115>>,  \* rupees
    <<114,117,112,101,101>>,  \* rupee
    <<114,117,112,97,121>>,  \* rupay
    <<114,117,112,97,121,97>>,  \* rupaya
    <<114,111,111,112,101,101,115>>,  \* roopees
    <<114,117,112,105,101,115>>,  \* rupies
    <<114,115>>,  \* rs
    <<114>>,  \* r
    <<105,110,114>>,  \* inr
    <<8377>>,  \* ₹
    <<2992,3010,2986,3006,2991,3021>>,  \* ரூபாய்
    <<2992,3010,2986,3006>>,  \* ரூபா
    <<2992,3010>>,  \* ரூ
    <<2997,3007,2994,3016>>,  \* விலை
    <<2992,3010,2986,3006,2991,3021,2965,3021,2965,3009>>,  \* ரூபாய்க்கு
    <<2992,3010,2986,3016>>,  \* ரூபை
    <<98,117,99,107,115>>,  \* bucks
    <<112,114,105,99,101>>  \* price
  >>

\* src/IMPLEMENTATION_SUMMARY.md:829-858
QUANTITY_KEYWORDS ==
  <<
    <<107,105,108,111,103,114,97,109>>,  \* kilogram
    <<107,105,108,111,103,114,97,109,115>>,  \* kilograms
    <<107,105,108,111>>,  \* kilo
    <<107,105,108,111,115>>,  \* kilos
    <<107,103,115>>,  \* kgs
    <<107,103>>,  \* kg
    <<103,114,97,109>>,  \* gram
    <<103,114,97,109,115>>,  \* grams
    <<103,109,115>>,  \* gms
    <<103,109>>,  \* gm
    <<103>>,  \* g
    <<108,105,116,101,114,115>>,  \* liters
    <<108,105,116,101,114>>,  \* liter
    <<108,105,116,114,101>>,  \* litre
    <<108,105,116,114,101,115>>,  \* litres
    <<108,116,114>>,  \* ltr
    <<108>>,  \* l
    <<109,105,108,108,105,108,105,116,101,114,115>>,  \* milliliters
    <<109,105,108,108,105,108,105,116,101,114>>,  \* milliliter
    <<109,105,108,108,105>>,  \* milli
    <<109,108>>,  \* ml
    <<112,97,99,107,101,116,115>>,  \* packets
    <<112,97,99,107,101,116>>,  \* packet
    <<112,107,116>>,  \* pkt
    <<112,97,99,107>>,  \* pack
    <<112,97,99,107,115>>,  \* packs
    <<98,117,110,100,108,101>>,  \* bundle
    <<98,117,110,100,108,101,115>>,  \* bundles
    <<98,117,110,99,104>>,  \* bunch
    <<98,117,110,99,104,101,115>>,  \* bunches
    <<98,111,120,101,115>>,  \* boxes
    <<98,111,120>>,  \* box
    <<112,105,101,99,101,115>>,  \* pieces
    <<112,105,101,99,101>>,  \* piece
    <<112,99,115>>,  \* pcs
    <<112,99>>,  \* pc
    <<110,111,115>>,  \* nos
    <<110,117,109,98,101,114>>,  \* number
    <<110,117,109,98,101,114,115>>,  \* numbers
    <<99,111,117,110,116>>,  \* count
    <<100,111,122,101,110>>,  \* dozen
    <<100,111,122,101,110,115>>,  \* dozens
    <<100,111,122>>,  \* doz
    <<117,110,105,116>>,  \* unit
    <<117,110,105,116,115>>,  \* units
    <<2965,3007,2994,3019>>,  \* கிலோ
    <<2965,3007,2994,3019,2965,3007,2992,3006,2990,3021>>,  \* கிலோகிராம்
    <<2965,3007,46,2965,3007>>,  \* கி.கி
    <<2965,3007>>,  \* கி
    <<2965,3007,2992,3006,2990,3021>>,  \* கிராம்
    <<2965,3007,2992,3006>>,  \* கிரா
    <<2994,3007,2975,3021,2975,2992,3021>>,  \* லிட்டர்
    <<2994,3007>>,  \* லி
    <<2990,3007,2994,3021,2994,3007>>,  \* மில்லி
    <<2990,3007,46,2994,3007>>,  \* மி.லி
    <<2986,3006,2965,3021,2965,3014,2975,3021>>,  \* பாக்கெட்
    <<2986,3006,2965,3021>>,  \* பாக்
    <<2986,3015,2965,3021>>,  \* பேக்
    <<2965,2975,3021,2975,3009>>,  \* கட்டு
    <<2965,2975,3021,2975,3009,2965,2995,3021>>,  \* கட்டுகள்
    <<2958,2979,3021,2979,3007,2965,3021,2965,3016>>,  \* எண்ணிக்கை
    <<2986,3008,3000,3021>>,  \* பீஸ்
    <<2986,3007,3000,3021>>,  \* பிஸ்
    <<2975,2972,2985,3021>>,  \* டஜன்
    <<2990,3010,2975,3021,2975,3016>>,  \* மூட்டை
    <<2986,3014,2975,3021,2975,3007>>  \* பெட்டி
  >>

\* src/services/voiceParser.ts:16-58
TAMIL_NUMBER_MAP ==
  <<
    <<<<2962,2985,3021,2993,3009>>, <<49>>>>,  \* ஒன்று : 1
    <<<<2962,2985,3021,2985,3009>>, <<49>>>>,  \* ஒன்னு : 1
    <<<<2962,2992,3009>>, <<49>>>>,  \* ஒரு : 1
    <<<<2962,2979,3021,2979,3009>>, <<49>>>>,  \* ஒண்ணு : 1
    <<<<2962,2985,3021>>, <<49>>>>,  \* ஒன் : 1
    <<<<2963,2985,3021,2985,3009>>, <<49>>>>,  \* ஓன்னு : 1
    <<<<2951,2992,2979,3021,2975,3009>>, <<50>>>>,  \* இரண்டு : 2
    <<<<2992,3014,2979,3021,2975,3009>>, <<50>>>>,  \* ரெண்டு : 2
    <<<<2951,2992,3014,2979,3021,2975,3009>>, <<50>>>>,  \* இரெண்டு : 2
    <<<<2992,2979,3021,2975,3009>>, <<50>>>>,  \* ரண்டு : 2
    <<<<2992,3014,2979,3021,2975>>, <<50>>>>,  \* ரெண்ட : 2
    <<<<2990,3010,2985,3021,2993,3009>>, <<51>>>>,  \* மூன்று : 3
    <<<<2990,3010,2979,3009>>, <<51>>>>,  \* மூணு : 3
    <<<<2990,3010,2985,3021>>, <<51>>>>,  \* மூன் : 3
    <<<<2990,3010,2985,3021,2985>>, <<51>>>>,  \* மூன்ன : 3
    <<<<2984,3006,2985,3021,2965,3009>>, <<52>>>>,  \* நான்கு : 4
    <<<<2984,3006,2994,3009>>, <<52>>>>,  \* நாலு : 4
    <<<<2984,3006,2969,3021,2965,3009>>, <<52>>>>,  \* நாங்கு : 4
    <<<<2984,3006,2985,3021>>, <<52>>>>,  \* நான் : 4
    <<<<2984,3006,2994>>, <<52>>>>,  \* நால : 4
    <<<<2960,2984,3021,2980,3009>>, <<53>>>>,  \* ஐந்து : 5
    <<<<2949,2974,3021,2970,3009>>, <<53>>>>,  \* அஞ்சு : 5
    <<<<2960,2984,3021>>, <<53>>>>,  \* ஐந் : 5
    <<<<2960,2974,3021,2970,3009>>, <<53>>>>,  \* ஐஞ்சு : 5
    <<<<2950,2993,3009>>, <<54>>>>,  \* ஆறு : 6
    <<<<2950,2993>>, <<54>>>>,  \* ஆற : 6
    <<<<2950,2993,3006>>, <<54>>>>,  \* ஆறா : 6
    <<<<2959,2996,3009>>, <<55>>>>,  \* ஏழு : 7
    <<<<2959,2996>>, <<55>>>>,  \* ஏழ : 7
    <<<<2959,2996,3006>>, <<55>>>>,  \* ஏழா : 7
    <<<<2958,2975,3021,2975,3009>>, <<56>>>>,  \* எட்டு : 8
    <<<<2958,2975,3021>>, <<56>>>>,  \* எட் : 8
    <<<<2958,2975,3021,2975>>, <<56>>>>,  \* எட்ட : 8
    <<<<2962,2985,3021,2986,2980,3009>>, <<57>>>>,  \* ஒன்பது : 9
    <<<<2962,2990,3021,2986,2980,3009>>, <<57>>>>,  \* ஒம்பது : 9
    <<<<2962,2985,3021,2986>>, <<57>>>>,  \* ஒன்ப : 9
    <<<<2962,2990,3021,2986,3019,2980,3009>>, <<57>>>>,  \* ஒம்போது : 9
    <<<<2986,2980,3021,2980,3009>>, <<49,48>>>>,  \* பத்து : 10
    <<<<2986,2980,3021>>, <<49,48>>>>,  \* பத் : 10
    <<<<2986,2980,3021,2980,3006>>, <<49,48>>>>,  \* பத்தா : 10
    <<<<2986,2980,3007,2985,3018,2985,3021,2993,3009>>, <<49,49>>>>,  \* பதினொன்று : 11
    <<<<2986,2980,3007,2985,3019,2992,3009>>, <<49,49>>>>,  \* பதினோரு : 11
    <<<<2986,2980,3007,2985,3018,2979,3021,2979,3009>>, <<49,49>>>>,  \* பதினொண்ணு : 11
    <<<<2986,2985,3021,2985,3007,2992,2979,3021,2975,3009>>, <<49,50>>>>,  \* பன்னிரண்டு : 12
    <<<<2986,2985,3021,2985,3014,2979,3021,2975,3009>>, <<49,50>>>>,  \* பன்னெண்டு : 12
    <<<<2986,2985,3007,2992,3014,2979,3021,2975,3009>>, <<49,50>>>>,  \* பனிரெண்டு : 12
    <<<<2986,2980,3007,2990,3010,2985,3021,2993,3009>>, <<49,51>>>>,  \* பதிமூன்று : 13
    <<<<2986,2980,3007,2985,3021,2990,3010,2985,3021,2993,3009>>, <<49,51>>>>,  \* பதின்மூன்று : 13
    <<<<2986,2980,3007,2985,3006,2985,3021,2965,3009>>, <<49,52>>>>,  \* பதினான்கு : 14
    <<<<2986,2980,3007,2985,3006,2994,3009>>, <<49,52>>>>,  \* பதினாலு : 14
    <<<<2986,2980,3007,2985,3016,2984,3021,2980,3009>>, <<49,53>>>>,  \* பதினைந்து : 15
    <<<<2986,2980,3007,2985,2974,3021,2970,3009>>, <<49,53>>>>,  \* பதினஞ்சு : 15
    <<<<2986,2980,3007,2985,3006,2993,3009>>, <<49,54>>>>,  \* பதினாறு : 16
    <<<<2986,2980,3007,2985,3015,2996,3009>>, <<49,55>>>>,  \* பதினேழு : 17
    <<<<2986,2980,3007,2985,3014,2975,3021,2975,3009>>, <<49,56>>>>,  \* பதினெட்டு : 18
    <<<<2986,2980,3021,2980,3018,2985,3021,2986,2980,3009>>, <<49,57>>>>,  \* பத்தொன்பது : 19
    <<<<2986,2980,3021,2980,3018,2990,3021,2986,2980,3009>>, <<49,57>>>>,  \* பத்தொம்பது : 19
    <<<<2951,2992,3009,2986,2980,3009>>, <<50,48>>>>,  \* இருபது : 20
    <<<<2951,2992,3009,2997,2980,3009>>, <<50,48>>>>,  \* இருவது : 20
    <<<<2992,3009,2986,2980,3009>>, <<50,48>>>>,  \* ருபது : 20
    <<<<2951,2992,3009,2986,2980,3021,2980,3016,2984,3021,2980,3009>>, <<50,53>>>>,  \* இருபத்தைந்து : 25
    <<<<2951,2992,3009,2986,2980,3021,2980,2974,3021,2970,3009>>, <<50,53>>>>,  \* இருபத்தஞ்சு : 25
    <<<<2990,3009,2986,3021,2986,2980,3009>>, <<51,48>>>>,  \* முப்பது : 30
    <<<<2990,3010,2986,3021,2986,2980,3009>>, <<51,48>>>>,  \* மூப்பது : 30
    <<<<2984,3006,2993,3021,2986,2980,3009>>, <<52,48>>>>,  \* நாற்பது : 40
    <<<<2984,3006,2986,3021,2986,2980,3009>>, <<52,48>>>>,  \* நாப்பது : 40
    <<<<2960,2990,3021,2986,2980,3009>>, <<53,48>>>>,  \* ஐம்பது : 50
    <<<<2960,2990,3021,2986,2980,3021>>, <<53,48>>>>,  \* ஐம்பத் : 50
    <<<<2949,2993,3009,2986,2980,3009>>, <<54,48>>>>,  \* அறுபது : 60
    <<<<2958,2996,3009,2986,2980,3009>>, <<55,48>>>>,  \* எழுபது : 70
    <<<<2958,2979,3021,2986,2980,3009>>, <<56,48>>>>,  \* எண்பது : 80
    <<<<2980,3018,2979,3021,2979,3010,2993,3009>>, <<57,48>>>>,  \* தொண்ணூறு : 90
    <<<<2984,3010,2993,3009>>, <<49,48,48>>>>,  \* நூறு : 100
    <<<<2984,3010,2980,3021>>, <<49,48,48>>>>,  \* நூத் : 100
    <<<<2951,2992,3009,2984,3010,2993,3009>>, <<50,48,48>>>>,  \* இருநூறு : 200
    <<<<2990,3009,2984,3021,2984,3010,2993,3009>>, <<51,48,48>>>>,  \* முந்நூறு : 300
    <<<<2984,3006,2985,3010,2993,3009>>, <<52,48,48>>>>,  \* நானூறு : 400
    <<<<2960,2984,3021,2984,3010,2993,3009>>, <<53,48,48>>>>,  \* ஐந்நூறு : 500
    <<<<2949,2993,3009,2984,3010,2993,3009>>, <<54,48,48>>>>,  \* அறுநூறு : 600
    <<<<2958,2996,3009,2984,3010,2993,3009>>, <<55,48,48>>>>,  \* எழுநூறு : 700
    <<<<2958,2979,3021,2979,3010,2993,3009>>, <<56,48,48>>>>,  \* எண்ணூறு : 800
    <<<<2980,3018,2995,3021,2995,3006,2991,3007,2992,2990,3021>>, <<57,48,48>>>>,  \* தொள்ளாயிரம் : 900
    <<<<2950,2991,3007,2992,2990,3021>>, <<49,48,48,48>>>>,  \* ஆயிரம் : 1000
    <<<<2949,2992,3016>>, <<48,46,53>>>>,  \* அரை : 0.5
    <<<<2949,2992,3016,2965,3021>>, <<48,46,53>>>>,  \* அரைக் : 0.5
    <<<<2965,3006,2994,3021>>, <<48,46,50,53>>>>,  \* கால் : 0.25
    <<<<2965,3006,2994,3009>>, <<48,46,50,53>>>>,  \* காலு : 0.25
    <<<<2990,3009,2965,3021,2965,3006,2994,3021>>, <<48,46,55,53>>>>,  \* முக்கால் : 0.75
    <<<<2962,2985,3021,2985,2992,3016>>, <<49,46,53>>>>,  \* ஒன்னரை : 1.5
    <<<<2962,2979,3021,2979,2992,3016>>, <<49,46,53>>>>  \* ஒண்ணரை : 1.5
  >>

\* src/services/voiceParser.ts:61-96
ENGLISH_NUMBER_MAP ==
  <<
    <<<<111,110,101>>, <<49>>>>,  \* one : 1
    <<<<119,111,110>>, <<49>>>>,  \* won : 1
    <<<<119,97,110>>, <<49>>>>,  \* wan : 1
    <<<<116,119,111>>, <<50>>>>,  \* two : 2
    <<<<116,111>>, <<50>>>>,  \* to : 2
    <<<<116,111,111>>, <<50>>>>,  \* too : 2
    <<<<116,117>>, <<50>>>>,  \* tu : 2
    <<<<116,104,114,101,101>>, <<51>>>>,  \* three : 3
    <<<<116,114,101,101>>, <<51>>>>,  \* tree : 3
    <<<<102,114,101,101>>, <<51>>>>,  \* free : 3
    <<<<102,111,117,114>>, <<52>>>>,  \* four : 4
    <<<<102,111,114>>, <<52>>>>,  \* for : 4
    <<<<102,111,114,101>>, <<52>>>>,  \* fore : 4
    <<<<102,111,111,114>>, <<52>>>>,  \* foor : 4
    <<<<102,105,118,101>>, <<53>>>>,  \* five : 5
    <<<<102,105,102,101>>, <<53>>>>,  \* fife : 5
    <<<<115,105,120>>, <<54>>>>,  \* six : 6
    <<<<115,101,120>>, <<54>>>>,  \* sex : 6
    <<<<115,105,99,107,115>>, <<54>>>>,  \* sicks : 6
    <<<<115,101,118,101,110>>, <<55>>>>,  \* seven : 7
    <<<<115,101,118,97,110>>, <<55>>>>,  \* sevan : 7
    <<<<101,105,103,104,116>>, <<56>>>>,  \* eight : 8
    <<<<97,116,101>>, <<56>>>>,  \* ate : 8
    <<<<101,105,116>>, <<56>>>>,  \* eit : 8
    <<<<110,105,110,101>>, <<57>>>>,  \* nine : 9
    <<<<110,101,105,110>>, <<57>>>>,  \* nein : 9
    <<<<116,101,110>>, <<49,48>>>>,  \* ten : 10
    <<<<116,97,110>>, <<49,48>>>>,  \* tan : 10
    <<<<101,108,101,118,101,110>>, <<49,49>>>>,  \* eleven : 11
    <<<<108,101,118,97,110>>, <<49,49>>>>,  \* levan : 11
    <<<<116,119,101,108,118,101>>, <<49,50>>>>,  \* twelve : 12
    <<<<116,119,101,108,102>>, <<49,50>>>>,  \* twelf : 12
    <<<<116,104,105,114,116,101,101,110>>, <<49,51>>>>,  \* thirteen : 13
    <<<<102,111,117,114,116,101,101,110>>, <<49,52>>>>,  \* fourteen : 14
    <<<<102,105,102,116,101,101,110>>, <<49,53>>>>,  \* fifteen : 15
    <<<<102,105,102,116,105,110>>, <<49,53>>>>,  \* fiftin : 15
    <<<<115,105,120,116,101,101,110>>, <<49,54>>>>,  \* sixteen : 16
    <<<<115,101,118,101,110,116,101,101,110>>, <<49,55>>>>,  \* seventeen : 17
    <<<<101,105,103,104,116,101,101,110>>, <<49,56>>>>,  \* eighteen : 18
    <<<<110,105,110,101,116,101,101,110>>, <<49,57>>>>,  \* nineteen : 19
    <<<<116,119,101,110,116,121>>, <<50,48>>>>,  \* twenty : 20
    <<<<116,119,101,110,121>>, <<50,48>>>>,  \* tweny : 20
    <<<<116,119,101,110,116,105>>, <<50,48>>>>,  \* twenti : 20
    <<<<116,119,101,110,116,121,32,102,105,118,101>>, <<50,53>>>>,  \* twenty five : 25
    <<<<116,119,101,110,116,121,102,105,118,101>>, <<50,53>>>>,  \* twentyfive : 25
    <<<<116,104,105,114,116,121>>, <<51,48>>>>,  \* thirty : 30
    <<<<116,104,105,114,100,121>>, <<51,48>>>>,  \* thirdy : 30
    <<<<102,111,114,116,121>>, <<52,48>>>>,  \* forty : 40
    <<<<102,111,117,114,116,121>>, <<52,48>>>>,  \* fourty : 40
    <<<<102,111,117,114,116,105,101>>, <<52,48>>>>,  \* fourtie : 40
    <<<<102,105,102,116,121>>, <<53,48>>>>,  \* fifty : 50
    <<<<102,105,102,116,105,101>>, <<53,48>>>>,  \* fiftie : 50
    <<<<115,105,120,116,121>>, <<54,48>>>>,  \* sixty : 60
    <<<<115,101,118,101,110,116,121>>, <<55,48>>>>,  \* seventy : 70
    <<<<101,105,103,104,116,121>>, <<56,48>>>>,  \* eighty : 80
    <<<<110,105,110,101,116,121>>, <<57,48>>>>,  \* ninety : 90
    <<<<104,117,110,100,114,101,100>>, <<49,48,48>>>>,  \* hundred : 100
    <<<<104,117,110,100,114,97,100>>, <<49,48,48>>>>,  \* hundrad : 100
    <<<<116,119,111,32,104,117,110,100,114,101,100>>, <<50,48,48>>>>,  \* two hundred : 200
    <<<<116,104,114,101,101,32,104,117,110,100,114,101,100>>, <<51,48,48>>>>,  \* three hundred : 300
    <<<<102,105,118,101,32,104,117,110,100,114,101,100>>, <<53,48,48>>>>,  \* five hundred : 500
    <<<<116,104,111,117,115,97,110,100>>, <<49,48,48,48>>>>,  \* thousand : 1000
    <<<<104,97,108,102>>, <<48,46,53>>>>,  \* half : 0.5
    <<<<104,97,102>>, <<48,46,53>>>>,  \* haf : 0.5
    <<<<113,117,97,114,116,101,114>>, <<48,46,50,53>>>>,  \* quarter : 0.25
    <<<<113,117,97,116,101,114>>, <<48,46,50,53>>>>,  \* quater : 0.25
    <<<<111,110,101,32,97,110,100,32,104,97,108,102>>, <<49,46,53>>>>,  \* one and half : 1.5
    <<<<111,110,101,32,104,97,108,102>>, <<49,46,53>>>>  \* one half : 1.5
  >>

\* src/services/voiceParser.ts:99-115
RATE_CORRECTIONS ==
  <<
    <<<<114,117,112,101,101>>, <<114,117,112,101,101,115>>>>,  \* rupee : rupees
    <<<<114,117,112,101>>, <<114,117,112,101,101,115>>>>,  \* rupe : rupees
    <<<<114,117,112,97,121>>, <<114,117,112,101,101,115>>>>,  \* rupay : rupees
    <<<<114,117,112,97,121,97>>, <<114,117,112,101,101,115>>>>,  \* rupaya : rupees
    <<<<114,111,111,112,101,101,115>>, <<114,117,112,101,101,115>>>>,  \* roopees : rupees
    <<<<114,117,112,105,101,115>>, <<114,117,112,101,101,115>>>>,  \* rupies : rupees
    <<<<114,117,112,105>>, <<114,117,112,101,101,115>>>>,  \* rupi : rupees
    <<<<114,115>>, <<114,117,112,101,101,115>>>>,  \* rs : rupees
    <<<<97,114,101>>, <<114,117,112,101,101,115>>>>,  \* are : rupees
    <<<<97,114,115>>, <<114,117,112,101,101,115>>>>,  \* ars : rupees
    <<<<114,117,112,101,115,115>>, <<114,117,112,101,101,115>>>>,  \* rupess : rupees
    <<<<2992,3010,2986,3006,2991,3021>>, <<2992,3010,2986,3006,2991,3021>>>>,  \* ரூபாய் : ரூபாய்
    <<<<2992,3010,2986,3006>>, <<2992,3010,2986,3006,2991,3021>>>>,  \* ரூபா : ரூபாய்
    <<<<2992,3009,2986,3006,2991,3021>>, <<2992,3010,2986,3006,2991,3021>>>>,  \* ருபாய் : ரூபாய்
    <<<<2992,3009,2986,3006>>, <<2992,3010,2986,3006,2991,3021>>>>  \* ருபா : ரூபாய்
  >>

\* src/services/voiceParser.ts:123-312
TAMIL_ITEM_NAMES_DECLARED ==
  <<
    <<2980,2965,3021,2965,3006,2995,3007>>,  \* தக்காளி
    <<2997,3014,2969,3021,2965,3006,2991,2990,3021>>,  \* வெங்காயம்
    <<2953,2992,3009,2995,3016,2965,3021,2965,3007,2996,2969,3021,2965,3009>>,  \* உருளைக்கிழங்கு
    <<2953,2992,3009,2995,3016>>,  \* உருளை
    <<2965,2980,3021,2980,3007,2992,3007,2965,3021,2965,3006,2991,3021>>,  \* கத்திரிக்காய்
    <<2965,2980,3021,2980,3007,2992,3007>>,  \* கத்திரி
    <<2990,3009,2992,3009,2969,3021,2965,3016,2965,3021,2965,3006,2991,3021>>,  \* முருங்கைக்காய்
    <<2986,3006,2965,2993,3021,2965,3006,2991,3021>>,  \* பாகற்காய்
    <<2986,3009,2975,2994,2969,3021,2965,3006,2991,3021>>,  \* புடலங்காய்
    <<2970,3009,2992,3016,2965,3021,2965,3006,2991,3021>>,  \* சுரைக்காய்
    <<2997,3014,2979,3021,2975,3016,2965,3021,2965,3006,2991,3021>>,  \* வெண்டைக்காய்
    <<2986,3008,2985,3021,3000,3021>>,  \* பீன்ஸ்
    <<2965,3015,2992,2975,3021>>,  \* கேரட்
    <<2986,3008,2975,3021,2992,3010,2975,3021>>,  \* பீட்ரூட்
    <<2990,3009,2995,3021,2995,2969,3021,2965,3007>>,  \* முள்ளங்கி
    <<2965,3008,2992,3016>>,  \* கீரை
    <<2965,3018,2980,3021,2980,2990,2994,3021,2994,3007>>,  \* கொத்தமல்லி
    <<2986,3009,2980,3007,2985,3006>>,  \* புதினா
    <<2986,3010,2970,2979,3007,2965,3021,2965,3006,2991,3021>>,  \* பூசணிக்காய்
    <<2990,3007,2995,2965,3006,2991,3021>>,  \* மிளகாய்
    <<2986,2970,3021,2970,3016,32,2990,3007,2995,2965,3006,2991,3021>>,  \* பச்சை மிளகாய்
    <<2951,2974,3021,2970,3007>>,  \* இஞ்சி
    <<2986,3010,2979,3021,2975,3009>>,  \* பூண்டு
    <<2980,3015,2969,3021,2965,3006,2991,3021>>,  \* தேங்காய்
    <<2990,3009,2975,3021,2975,3016,2965,3019,3000,3021>>,  \* முட்டைகோஸ்
    <<2965,3006,2994,3007,2947,2986,3021,2995,2997,2992,3021>>,  \* காலிஃப்ளவர்
    <<2965,3009,2975,3016,2990,3007,2995,2965,3006,2991,3021>>,  \* குடைமிளகாய்
    <<2970,3020,2970,3020>>,  \* சௌசௌ
    <<2949,2997,2992,3016,2965,3021,2965,3006,2991,3021>>,  \* அவரைக்காய்
    <<2986,2975,3021,2975,3006,2979,3007>>,  \* பட்டாணி
    <<2970,3007,2985,3021,2985,32,2997,3014,2969,3021,2965,3006,2991,2990,3021>>,  \* சின்ன வெங்காயம்
    <<2986,3014,2992,3007,2991,32,2997,3014,2969,3021,2965,3006,2991,2990,3021>>,  \* பெரிய வெங்காயம்
    <<2997,3006,2996,3016,2980,3021,2980,2979,3021,2975,3009>>,  \* வாழைத்தண்டு
    <<2984,3010,2994,3021,2965,3019,2994,3021>>,  \* நூல்கோல்
    <<2970,3015,2986,3021,2986,2969,3021,2965,3007,2996,2969,3021,2965,3009>>,  \* சேப்பங்கிழங்கு
    <<2965,2992,3009,2979,3016,2965,3021,2965,3007,2996,2969,3021,2965,3009>>,  \* கருணைக்கிழங்கு
    <<2990,2992,2997,2995,3021,2995,3007,2965,3021,2965,3007,2996,2969,3021,2965,3009>>,  \* மரவள்ளிக்கிழங்கு
    <<2986,3009,2995,3007,2970,3021,2970,3016,32,2965,3008,2992,3016>>,  \* புளிச்சை கீரை
    <<2949,2992,3016,2965,3021,2965,3008,2992,3016>>,  \* அரைக்கீரை
    <<2986,2970,2994,3016,2965,3021,2965,3008,2992,3016>>,  \* பசலைக்கீரை
    <<2949,2965,2980,3021,2980,3007,32,2965,3008,2992,3016>>,  \* அகத்தி கீரை
    <<116,111,109,97,116,111>>,  \* tomato
    <<116,111,109,97,116,111,101,115>>,  \* tomatoes
    <<111,110,105,111,110>>,  \* onion
    <<111,110,105,111,110,115>>,  \* onions
    <<112,111,116,97,116,111>>,  \* potato
    <<112,111,116,97,116,111,101,115>>,  \* potatoes
    <<99,97,114,114,111,116>>,  \* carrot
    <<99,97,114,114,111,116,115>>,  \* carrots
    <<98,101,97,110,115>>,  \* beans
    <<103,114,101,101,110,32,98,101,97,110,115>>,  \* green beans
    <<98,114,105,110,106,97,108>>,  \* brinjal
    <<101,103,103,112,108,97,110,116>>,  \* eggplant
    <<111,107,114,97>>,  \* okra
    <<108,97,100,121,32,102,105,110,103,101,114>>,  \* lady finger
    <<100,114,117,109,115,116,105,99,107>>,  \* drumstick
    <<98,105,116,116,101,114,32,103,111,117,114,100>>,  \* bitter gourd
    <<98,111,116,116,108,101,32,103,111,117,114,100>>,  \* bottle gourd
    <<114,105,100,103,101,32,103,111,117,114,100>>,  \* ridge gourd
    <<115,110,97,107,101,32,103,111,117,114,100>>,  \* snake gourd
    <<98,101,101,116,114,111,111,116>>,  \* beetroot
    <<114,97,100,105,115,104>>,  \* radish
    <<115,112,105,110,97,99,104>>,  \* spinach
    <<99,111,114,105,97,110,100,101,114>>,  \* coriander
    <<109,105,110,116>>,  \* mint
    <<103,105,110,103,101,114>>,  \* ginger
    <<103,97,114,108,105,99>>,  \* garlic
    <<99,111,99,111,110,117,116>>,  \* coconut
    <<99,97,98,98,97,103,101>>,  \* cabbage
    <<99,97,117,108,105,102,108,111,119,101,114>>,  \* cauliflower
    <<99,97,112,115,105,99,117,109>>,  \* capsicum
    <<98,101,108,108,32,112,101,112,112,101,114>>,  \* bell pepper
    <<99,104,97,121,111,116,101>>,  \* chayote
    <<112,101,97,115>>,  \* peas
    <<115,119,101,101,116,32,112,111,116,97,116,111>>,  \* sweet potato
    <<116,97,112,105,111,99,97>>,  \* tapioca
    <<121,97,109>>,  \* yam
    <<112,108,97,110,116,97,105,110,32,115,116,101,109>>,  \* plantain stem
    <<2949,2992,3007,2970,3007>>,  \* அரிசி
    <<2986,2992,3009,2986,3021,2986,3009>>,  \* பருப்பு
    <<2965,3019,2980,3009,2990,3016>>,  \* கோதுமை
    <<2992,2997,3016>>,  \* ரவை
    <<2990,3016,2980,3006>>,  \* மைதா
    <<2980,3009,2997,2992,2990,3021,32,2986,2992,3009,2986,3021,2986,3009>>,  \* துவரம் பருப்பு
    <<2953,2995,3009,2984,3021,2980,3009>>,  \* உளுந்து
    <<2965,2975,2994,3016,32,2986,2992,3009,2986,3021,2986,3009>>,  \* கடலை பருப்பு
    <<2986,3006,2970,3007,2986,3021,2986,2992,3009,2986,3021,2986,3009>>,  \* பாசிப்பருப்பு
    <<2965,2990,3021,2986,3009>>,  \* கம்பு
    <<2992,3006,2965,3007>>,  \* ராகி
    <<2970,3019,2995,2990,3021>>,  \* சோளம்
    <<2997,2992,2965,3009>>,  \* வரகு
    <<2970,3006,2990,3016>>,  \* சாமை
    <<2965,3009,2980,3007,2992,3016,2997,3006,2994,3007>>,  \* குதிரைவாலி
    <<2980,3007,2985,3016>>,  \* தினை
    <<2965,2992,3009,2986,3021,2986,3009,32,2953,2995,3009,2984,3021,2980,3009>>,  \* கருப்பு உளுந்து
    <<2997,3014,2995,3021,2995,3016,32,2953,2995,3009,2984,3021,2980,3009>>,  \* வெள்ளை உளுந்து
    <<2990,3018,2970,3021,2970,3016>>,  \* மொச்சை
    <<2965,3006,2992,3006,2990,2979,3007>>,  \* காராமணி
    <<114,105,99,101>>,  \* rice
    <<100,97,108>>,  \* dal
    <<108,101,110,116,105,108,115>>,  \* lentils
    <<119,104,101,97,116>>,  \* wheat
    <<115,101,109,111,108,105,110,97>>,  \* semolina
    <<109,97,105,100,97>>,  \* maida
    <<102,108,111,117,114>>,  \* flour
    <<116,111,111,114,32,100,97,108>>,  \* toor dal
    <<109,111,111,110,103,32,100,97,108>>,  \* moong dal
    <<117,114,97,100,32,100,97,108>>,  \* urad dal
    <<99,104,97,110,97,32,100,97,108>>,  \* chana dal
    <<109,97,115,111,111,114,32,100,97,108>>,  \* masoor dal
    <<112,101,97,114,108,32,109,105,108,108,101,116>>,  \* pearl millet
    <<102,105,110,103,101,114,32,109,105,108,108,101,116>>,  \* finger millet
    <<99,111,114,110>>,  \* corn
    <<109,97,105,122,101>>,  \* maize
    <<98,97,114,108,101,121>>,  \* barley
    <<111,97,116,115>>,  \* oats
    <<113,117,105,110,111,97>>,  \* quinoa
    <<98,108,97,99,107,32,103,114,97,109>>,  \* black gram
    <<103,114,101,101,110,32,103,114,97,109>>,  \* green gram
    <<99,104,105,99,107,112,101,97,115>>,  \* chickpeas
    <<97,116,116,97>>,  \* atta
    <<2997,3006,2996,3016,2986,3021,2986,2996,2990,3021>>,  \* வாழைப்பழம்
    <<2950,2986,3021,2986,3007,2995,3021>>,  \* ஆப்பிள்
    <<2950,2992,2974,3021,2970,3009>>,  \* ஆரஞ்சு
    <<2980,3007,2992,3006,2975,3021,2970,3016>>,  \* திராட்சை
    <<2990,3006,2990,3021,2986,2996,2990,3021>>,  \* மாம்பழம்
    <<2990,3006,2969,3021,2965,3006,2991,3021>>,  \* மாங்காய்
    <<2986,2986,3021,2986,3006,2995,3007>>,  \* பப்பாளி
    <<2965,3018,2991,3021,2991,3006>>,  \* கொய்யா
    <<2980,2992,3021,2986,3010,2970,2979,3007>>,  \* தர்பூசணி
    <<2986,3015,2992,3007,2965,3021,2965,3006,2991,3021>>,  \* பேரிக்காய்
    <<2990,3006,2980,3009,2995,3016>>,  \* மாதுளை
    <<2970,2986,3021,2986,3019,2975,3021,2975,3006>>,  \* சப்போட்டா
    <<2949,2985,3021,2985,3006,2970,3007,2986,3021,2986,2996,2990,3021>>,  \* அன்னாசிப்பழம்
    <<2965,2990,2994,3006,2986,3021,2986,2996,2990,3021>>,  \* கமலாப்பழம்
    <<2984,3006,2997,2993,3021,2986,2996,2990,3021>>,  \* நாவற்பழம்
    <<2951,2994,2984,3021,2980,3016,2986,3021,2986,2996,2990,3021>>,  \* இலந்தைப்பழம்
    <<2984,3014,2994,3021,2994,3007,2965,3021,2965,3006,2991,3021>>,  \* நெல்லிக்காய்
    <<2958,2994,3009,2990,3007,2970,3021,2970,3016>>,  \* எலுமிச்சை
    <<2970,3006,2980,3021,2980,3009,2965,3021,2965,3009,2975,3007>>,  \* சாத்துக்குடி
    <<2951,2995,2984,3008,2992,3021>>,  \* இளநீர்
    <<2986,2994,3006,2986,3021,2986,2996,2990,3021>>,  \* பலாப்பழம்
    <<98,97,110,97,110,97>>,  \* banana
    <<98,97,110,97,110,97,115>>,  \* bananas
    <<97,112,112,108,101>>,  \* apple
    <<97,112,112,108,101,115>>,  \* apples
    <<111,114,97,110,103,101>>,  \* orange
    <<111,114,97,110,103,101,115>>,  \* oranges
    <<103,114,97,112,101,115>>,  \* grapes
    <<109,97,110,103,111>>,  \* mango
    <<109,97,110,103,111,101,115>>,  \* mangoes
    <<112,97,112,97,121,97>>,  \* papaya
    <<103,117,97,118,97>>,  \* guava
    <<119,97,116,101,114,109,101,108,111,110>>,  \* watermelon
    <<112,101,97,114>>,  \* pear
    <<112,111,109,101,103,114,97,110,97,116,101>>,  \* pomegranate
    <<115,97,112,111,116,97>>,  \* sapota
    <<112,105,110,101,97,112,112,108,101>>,  \* pineapple
    <<99,117,115,116,97,114,100,32,97,112,112,108,101>>,  \* custard apple
    <<106,97,109,117,110>>,  \* jamun
    <<106,117,106,117,98,101>>,  \* jujube
    <<103,111,111,115,101,98,101,114,114,121>>,  \* gooseberry
    <<108,101,109,111,110>>,  \* lemon
    <<108,105,109,101>>,  \* lime
    <<115,119,101,101,116,32,108,105,109,101>>,  \* sweet lime
    <<99,111,99,111,110,117,116,32,119,97,116,101,114>>,  \* coconut water
    <<106,97,99,107,102,114,117,105,116>>,  \* jackfruit
    <<100,97,116,101,115>>,  \* dates
    <<102,105,103,115>>,  \* figs
    <<107,105,119,105>>,  \* kiwi
    <<100,114,97,103,111,110,32,102,114,117,105,116>>,  \* dragon fruit
    <<112,97,115,115,105,111,110,32,102,114,117,105,116>>,  \* passion fruit
    <<2986,3006,2994,3021>>,  \* பால்
    <<2980,2991,3007,2992,3021>>,  \* தயிர்
    <<2990,3019,2992,3021>>,  \* மோர்
    <<2984,3014,2991,3021>>,  \* நெய்
    <<2997,3014,2979,3021,2979,3014,2991,3021>>,  \* வெண்ணெய்
    <<2986,2985,3021,2985,3008,2992,3021>>,  \* பன்னீர்
    <<2970,3008,3000,3021>>,  \* சீஸ்
    <<2965,3021,2992,3008,2990,3021>>,  \* க்ரீம்
    <<2990,3007,2994,3021,2965,3021,32,2986,2997,3009,2975,2992,3021>>,  \* மில்க் பவுடர்
    <<2990,3007,2994,3021,2965,3021,2990,3014,2991,3021,2975,3021>>,  \* மில்க்மெய்ட்
    <<2960,3000,3021,32,2965,3021,2992,3008,2990,3021>>,  \* ஐஸ் க்ரீம்
    <<109,105,108,107>>,  \* milk
    <<99,117,114,100>>,  \* curd
    <<121,111,103,117,114,116>>,  \* yogurt
    <<98,117,116,116,101,114,109,105,108,107>>,  \* buttermilk
    <<103,104,101,101>>,  \* ghee
    <<98,117,116,116,101,114>>,  \* butter
    <<112,97,110,101,101,114>>,  \* paneer
    <<99,104,101,101,115,101>>,  \* cheese
    <<99,114,101,97,109>>,  \* cream
    <<109,105,108,107,32,112,111,119,100,101,114>>,  \* milk powder
    <<99,111,110,100,101,110,115,101,100,32,109,105,108,107>>,  \* condensed milk
    <<105,99,101,32,99,114,101,97,109>>,  \* ice cream
    <<109,111,122,122,97,114,101,108,108,97>>,  \* mozzarella
    <<99,111,116,116,97,103,101,32,99,104,101,101,115,101>>,  \* cottage cheese
    <<2990,3009,2975,3021,2975,3016>>,  \* முட்டை
    <<2990,3008,2985,3021>>,  \* மீன்
    <<2965,3019,2996,3007>>,  \* கோழி
    <<2970,3007,2965,3021,2965,2985,3021>>,  \* சிக்கன்
    <<2990,2975,3021,2975,2985,3021>>,  \* மட்டன்
    <<2951,2993,3006,2994,3021>>,  \* இறால்
    <<2984,2979,3021,2975,3009>>,  \* நண்டு
    <<2965,2994,3021,2990,3008,2985,3021>>,  \* கல்மீன்
    <<2997,3006,2997,2994,3021,32,2990,3008,2985,3021>>,  \* வாவல் மீன்
    <<2970,3009,2993,3006,32,2990,3008,2985,3021>>,  \* சுறா மீன்
    <<2965,3014,2980,3021,2980,3007,32,2990,3008,2985,3021>>,  \* கெத்தி மீன்
    <<2997,2974,3021,2970,3007,2992,2990,3021>>,  \* வஞ்சிரம்
    <<101,103,103>>,  \* egg
    <<101,103,103,115>>,  \* eggs
    <<99,104,105,99,107,101,110>>,  \* chicken
    <<109,117,116,116,111,110>>,  \* mutton
    <<103,111,97,116,32,109,101,97,116>>,  \* goat meat
    <<98,101,101,102>>,  \* beef
    <<112,111,114,107>>,  \* pork
    <<102,105,115,104>>,  \* fish
    <<112,114,97,119,110,115>>,  \* prawns
    <<115,104,114,105,109,112>>,  \* shrimp
    <<99,114,97,98>>,  \* crab
    <<115,113,117,105,100>>,  \* squid
    <<116,117,110,97>>,  \* tuna
    <<115,97,108,109,111,110>>,  \* salmon
    <<115,97,114,100,105,110,101,115>>,  \* sardines
    <<109,97,99,107,101,114,101,108>>,  \* mackerel
    <<112,111,109,102,114,101,116>>,  \* pomfret
    <<107,105,110,103,102,105,115,104>>,  \* kingfish
    <<2953,2986,3021,2986,3009>>,  \* உப்பு
    <<2970,2992,3021,2965,3021,2965,2992,3016>>,  \* சர்க்கரை
    <<2990,3007,2995,2965,3009>>,  \* மிளகு
    <<2990,2974,3021,2970,2995,3021>>,  \* மஞ்சள்
    <<2970,3008,2992,2965,2990,3021>>,  \* சீரகம்
    <<2965,2975,3009,2965,3009>>,  \* கடுகு
    <<2997,3014,2984,3021,2980,2991,2990,3021>>,  \* வெந்தயம்
    <<2965,3018,2980,3021,2980,2990,2994,3021,2994,3007,32,2997,3007,2980,3016>>,  \* கொத்தமல்லி விதை
    <<2959,2994,2965,3021,2965,3006,2991,3021>>,  \* ஏலக்காய்
    <<2994,2997,2969,3021,2965,2990,3021>>,  \* லவங்கம்
    <<2980,3006,2994,3007,2970,3021,2970,2990,3021,32,2986,2980,3021,2980,3007,2992,3007>>,  \* தாலிச்சம் பத்திரி
    <<2970,3007,2985,3021,2985,2990,2985,3021>>,  \* சின்னமன்
    <<2970,3019,2990,3021,2986,3009>>,  \* சோம்பு
    <<2986,3014,2992,3009,2969,3021,2965,3006,2991,2990,3021>>,  \* பெருங்காயம்
    <<2990,3007,2995,2965,3006,2991,3021,2980,3021,2980,3010,2995,3021>>,  \* மிளகாய்த்தூள்
    <<2965,2992,2990,3021,32,2990,2970,3006,2994,3006>>,  \* கரம் மசாலா
    <<2970,3006,2990,3021,2986,3006,2992,3021,32,2986,2997,3009,2975,2992,3021>>,  \* சாம்பார் பவுடர்
    <<2992,2970,2990,3021,32,2986,2997,3009,2975,2992,3021>>,  \* ரசம் பவுடர்
    <<115,97,108,116>>,  \* salt
    <<115,117,103,97,114>>,  \* sugar
    <<106,97,103,103,101,114,121>>,  \* jaggery
    <<112,101,112,112,101,114>>,  \* pepper
    <<116,117,114,109,101,114,105,99>>,  \* turmeric
    <<99,117,109,105,110>>,  \* cumin
    <<109,117,115,116,97,114,100,32,115,101,101,100,115>>,  \* mustard seeds
    <<102,101,110,117,103,114,101,101,107>>,  \* fenugreek
    <<99,111,114,105,97,110,100,101,114,32,115,101,101,100,115>>,  \* coriander seeds
    <<99,97,114,100,97,109,111,109>>,  \* cardamom
    <<99,108,111,118,101,115>>,  \* cloves
    <<98,97,121,32,108,101,97,118,101,115>>,  \* bay leaves
    <<99,105,110,110,97,109,111,110>>,  \* cinnamon
    <<102,101,110,110,101,108>>,  \* fennel
    <<97,115,97,102,111,101,116,105,100,97>>,  \* asafoetida
    <<114,101,100,32,99,104,105,108,105,32,112,111,119,100,101,114>>,  \* red chili powder
    <<103,97,114,97,109,32,109,97,115,97,108,97>>,  \* garam masala
    <<115,97,109,98,97,114,32,112,111,119,100,101,114>>,  \* sambar powder
    <<114,97,115,97,109,32,112,111,119,100,101,114>>,  \* rasam powder
    <<118,97,110,105,108,108,97>>,  \* vanilla
    <<111,114,101,103,97,110,111>>,  \* oregano
    <<98,97,115,105,108>>,  \* basil
    <<2958,2979,3021,2979,3014,2991,3021>>,  \* எண்ணெய்
    <<2984,2994,3021,2994,3014,2979,3021,2979,3014,2991,3021>>,  \* நல்லெண்ணெய்
    <<2980,3015,2969,3021,2965,3006,2991,3021,32,2958,2979,3021,2979,3014,2991,3021>>,  \* தேங்காய் எண்ணெய்
    <<2965,2975,2994,3016,32,2958,2979,3021,2979,3014,2991,3021>>,  \* கடலை எண்ணெய்
    <<2970,3010,2992,3007,2991,2965,3006,2984,3021,2980,3007,32,2958,2979,3021,2979,3014,2991,3021>>,  \* சூரியகாந்தி எண்ணெய்
    <<2950,2994,3007,2997,3021,32,2950,2991,3007,2994,3021>>,  \* ஆலிவ் ஆயில்
    <<2984,3014,2991,3021>>,  \* நெய்
    <<111,105,108>>,  \* oil
    <<99,111,111,107,105,110,103,32,111,105,108>>,  \* cooking oil
    <<115,101,115,97,109,101,32,111,105,108>>,  \* sesame oil
    <<99,111,99,111,110,117,116,32,111,105,108>>,  \* coconut oil
    <<103,114,111,117,110,100,110,117,116,32,111,105,108>>,  \* groundnut oil
    <<115,117,110,102,108,111,119,101,114,32,111,105,108>>,  \* sunflower oil
    <<111,108,105,118,101,32,111,105,108>>,  \* olive oil
    <<109,117,115,116,97,114,100,32,111,105,108>>,  \* mustard oil
    <<103,104,101,101>>,  \* ghee
    <<118,101,103,101,116,97,98,108,101,32,111,105,108>>,  \* vegetable oil
    <<2970,3019,2986,3021,2986,3009>>,  \* சோப்பு
    <<2999,3006,2990,3021,2986,3010>>,  \* ஷாம்பூ
    <<2975,3010,2980,3021,32,2986,3015,3000,3021,2975,3021>>,  \* டூத் பேஸ்ட்
    <<2975,3010,2980,3021,32,2986,3007,2992,2999,3021>>,  \* டூத் பிரஷ்
    <<2975,3007,2999,3021,32,2997,3006,2999,3021>>,  \* டிஷ் வாஷ்
    <<2965,3007,2995,3008,2985,3007,2969,3021,32,2986,2997,3009,2975,2992,3021>>,  \* கிளீனிங் பவுடர்
    <<2984,3006,2986,3021,2965,3007,2985,3021>>,  \* நாப்கின்
    <<2975,3007,2999,3021,2991,3010>>,  \* டிஷ்யூ
    <<2986,3015,2986,3021,2986,2992,3021>>,  \* பேப்பர்
    <<2986,3015,2985,3006>>,  \* பேனா
    <<2986,3014,2985,3021,2970,3007,2994,3021>>,  \* பென்சில்
    <<2992,2986,3021,2986,2992,3021>>,  \* ரப்பர்
    <<2984,3019,2975,3021,2986,3009,2965,3021>>,  \* நோட்புக்
    <<2965,3015,2979,3021,2975,3007,2994,3021>>,  \* கேண்டில்
    <<2990,3006,2975,3021,2970,3021,32,2986,3006,2965,3021,3000,3021>>,  \* மாட்ச் பாக்ஸ்
    <<115,111,97,112>>,  \* soap
    <<115,104,97,109,112,111,111>>,  \* shampoo
    <<116,111,111,116,104,112,97,115,116,101>>,  \* toothpaste
    <<116,111,111,116,104,98,114,117,115,104>>,  \* toothbrush
    <<100,105,115,104,119,97,115,104>>,  \* dishwash
    <<100,101,116,101,114,103,101,110,116>>,  \* detergent
    <<99,108,101,97,110,105,110,103,32,112,111,119,100,101,114>>,  \* cleaning powder
    <<110,97,112,107,105,110>>,  \* napkin
    <<116,105,115,115,117,101>>,  \* tissue
    <<116,111,105,108,101,116,32,112,97,112,101,114>>,  \* toilet paper
    <<112,101,110>>,  \* pen
    <<112,101,110,99,105,108>>,  \* pencil
    <<101,114,97,115,101,114>>,  \* eraser
    <<110,111,116,101,98,111,111,107>>,  \* notebook
    <<99,97,110,100,108,101>>,  \* candle
    <<109,97,116,99,104,101,115>>,  \* matches
    <<98,97,116,116,101,114,105,101,115>>,  \* batteries
    <<98,117,108,98>>,  \* bulb
    <<105,110,99,101,110,115,101,32,115,116,105,99,107,115>>,  \* incense sticks
    <<109,111,115,113,117,105,116,111,32,99,111,105,108>>,  \* mosquito coil
    <<2975,3008>>,  \* டீ
    <<2965,3006,2986,3007>>,  \* காபி
    <<2986,3006,2994,3021,32,2975,3008>>,  \* பால் டீ
    <<2965,3007,2992,3008,2985,3021,32,2975,3008>>,  \* கிரீன் டீ
    <<2972,3010,3000,3021>>,  \* ஜூஸ்
    <<2965,3019,2994,3021,2975,3021,32,2975,3021,2992,3007,2969,3021,2965,3021>>,  \* கோல்ட் ட்ரிங்க்
    <<2990,3007,2985,2992,2994,3021,32,2997,3006,2975,3021,2975,2992,3021>>,  \* மினரல் வாட்டர்
    <<2986,2975,3021,2975,2992,3021,2990,3007,2994,3021,2965,3021>>,  \* பட்டர்மில்க்
    <<2994,3000,3021,3000,3007>>,  \* லஸ்ஸி
    <<116,101,97>>,  \* tea
    <<99,111,102,102,101,101>>,  \* coffee
    <<103,114,101,101,110,32,116,101,97>>,  \* green tea
    <<106,117,105,99,101>>,  \* juice
    <<99,111,108,100,32,100,114,105,110,107>>,  \* cold drink
    <<115,111,102,116,32,100,114,105,110,107>>,  \* soft drink
    <<109,105,110,101,114,97,108,32,119,97,116,101,114>>,  \* mineral water
    <<98,117,116,116,101,114,109,105,108,107>>,  \* buttermilk
    <<108,97,115,115,105>>,  \* lassi
    <<101,110,101,114,103,121,32,100,114,105,110,107>>,  \* energy drink
    <<2986,3007,3000,3021,2965,2975,3021>>,  \* பிஸ்கட்
    <<2984,2990,3021,2965,3008,2985,3021>>,  \* நம்கீன்
    <<2970,3007,2986,3021,3000,3021>>,  \* சிப்ஸ்
    <<2970,3006,2965,3021,2994,3015,2975,3021>>,  \* சாக்லேட்
    <<2975,3021,2975,3006,2947,2986,3007>>,  \* ட்டாஃபி
    <<2965,3015,2965,3021>>,  \* கேக்
    <<2992,3000,3021,2965,3021>>,  \* ரஸ்க்
    <<2990,3007,2965,3021,2970,2992,3021>>,  \* மிக்சர்
    <<2990,3009,2992,3009,2965,3021,2965,3009>>,  \* முருக்கு
    <<2970,3008,2975,3016>>,  \* சீடை
    <<98,105,115,99,117,105,116,115>>,  \* biscuits
    <<99,111,111,107,105,101,115>>,  \* cookies
    <<110,97,109,107,101,101,110>>,  \* namkeen
    <<99,104,105,112,115>>,  \* chips
    <<99,104,111,99,111,108,97,116,101>>,  \* chocolate
    <<116,111,102,102,101,101>>,  \* toffee
    <<99,97,107,101>>,  \* cake
    <<114,117,115,107>>,  \* rusk
    <<109,105,120,116,117,114,101>>,  \* mixture
    <<109,117,114,117,107,107,117>>,  \* murukku
    <<115,101,101,100,97,105>>,  \* seedai
    <<99,114,97,99,107,101,114,115>>,  \* crackers
    <<2986,3015,2985,3006>>,  \* பேனா
    <<2986,3014,2985,3021,2970,3007,2994,3021>>,  \* பென்சில்
    <<2992,2986,3021,2986,2992,3021>>,  \* ரப்பர்
    <<2984,3019,2975,3021,2986,3009,2965,3021>>,  \* நோட்புக்
    <<2986,3015,2986,3021,2986,2992,3021>>,  \* பேப்பர்
    <<2958,2985,3021,2997,2994,2986,3021>>,  \* என்வலப்
    <<2360,2381,2325,2375,2354>>,  \* स्केल
    <<2965,3007,2995,3007,2986,3021>>,  \* கிளிப்
    <<3000,3021,2975,3015,2986,3021,2986,3007,2995,2992,3021>>,  \* ஸ்டேப்பிளர்
    <<2965,3015,2992,3021,2986,2985,3021,32,2986,3015,2986,3021,2986,2992,3021>>,  \* கேர்பன் பேப்பர்
    <<112,101,110>>,  \* pen
    <<112,101,110,99,105,108>>,  \* pencil
    <<101,114,97,115,101,114>>,  \* eraser
    <<110,111,116,101,98,111,111,107>>,  \* notebook
    <<112,97,112,101,114>>,  \* paper
    <<101,110,118,101,108,111,112,101>>,  \* envelope
    <<114,117,108,101,114>>,  \* ruler
    <<115,99,97,108,101>>,  \* scale
    <<99,108,105,112>>,  \* clip
    <<115,116,97,112,108,101,114>>,  \* stapler
    <<99,97,114,98,111,110,32,112,97,112,101,114>>,  \* carbon paper
    <<109,97,114,107,101,114>>,  \* marker
    <<104,105,103,104,108,105,103,104,116,101,114>>,  \* highlighter
    <<103,108,117,101>>,  \* glue
    <<116,97,112,101>>,  \* tape
    <<2990,3006,2980,3021,2980,3007,2992,3016>>,  \* மாத்திரை
    <<2990,2992,3009,2984,3021,2980,3009>>,  \* மருந்து
    <<2970,3007,2992,2986,3021>>,  \* சிரப்
    <<2950,2985,3021,2975,3007,2970,3014,2986,3021,2975,3007,2965,3021>>,  \* ஆன்டிசெப்டிக்
    <<2986,3015,2979,3021,2975,3015,2972,3021>>,  \* பேண்டேஜ்
    <<2965,3006,2975,3021,2975,2985,3021>>,  \* காட்டன்
    <<2980,3014,2992,3021,2990,3006,2990,3008,2975,3021,2975,2992,3021>>,  \* தெர்மாமீட்டர்
    <<2970,3006,2985,3007,2975,3016,2970,2992,3021>>,  \* சானிடைசர்
    <<2990,3006,3000,3021,2965,3021>>,  \* மாஸ்க்
    <<116,97,98,108,101,116>>,  \* tablet
    <<109,101,100,105,99,105,110,101>>,  \* medicine
    <<115,121,114,117,112>>,  \* syrup
    <<97,110,116,105,115,101,112,116,105,99>>,  \* antiseptic
    <<98,97,110,100,97,103,101>>,  \* bandage
    <<99,111,116,116,111,110>>,  \* cotton
    <<116,104,101,114,109,111,109,101,116,101,114>>,  \* thermometer
    <<115,97,110,105,116,105,122,101,114>>,  \* sanitizer
    <<109,97,115,107>>,  \* mask
    <<118,105,116,97,109,105,110>>,  \* vitamin
    <<2970,3019,2986,3021,2986,3009>>,  \* சோப்பு
    <<2999,3006,2990,3021,2986,3010>>,  \* ஷாம்பூ
    <<3001,3015,2992,3021,32,2950,2991,3007,2994,3021>>,  \* ஹேர் ஆயில்
    <<2965,3021,2992,3008,2990,3021>>,  \* க்ரீம்
    <<2994,3019,2999,2985,3021>>,  \* லோஷன்
    <<2975,3007,2991,3019,2975,2992,2985,3021,2975,3021>>,  \* டியோடரன்ட்
    <<2986,3014,2992,3021,2947,2986,3021,2991,3010,2990,3021>>,  \* பெர்ஃப்யூம்
    <<3001,3015,2992,3021,32,2972,3014,2994,3021>>,  \* ஹேர் ஜெல்
    <<115,111,97,112>>,  \* soap
    <<115,104,97,109,112,111,111>>,  \* shampoo
    <<104,97,105,114,32,111,105,108>>,  \* hair oil
    <<99,114,101,97,109>>,  \* cream
    <<108,111,116,105,111,110>>,  \* lotion
    <<100,101,111,100,111,114,97,110,116>>,  \* deodorant
    <<112,101,114,102,117,109,101>>,  \* perfume
    <<104,97,105,114,32,103,101,108>>,  \* hair gel
    <<102,97,99,101,32,119,97,115,104>>,  \* face wash
    <<109,111,105,115,116,117,114,105,122,101,114>>  \* moisturizer
  >>

\* src/services/voiceParser.ts:320-357
TAMIL_ASR_CORRECTIONS ==
  <<
    <<<<2980,2965,3021,2965,3006,2995>>, <<2980,2965,3021,2965,3006,2995,3007>>>>,  \* தக்காள : தக்காளி
    <<<<2980,2965,3021,2965,3006,2994>>, <<2980,2965,3021,2965,3006,2995,3007>>>>,  \* தக்கால : தக்காளி
    <<<<2975,2990,3015,2975,3021>>, <<2980,2965,3021,2965,3006,2995,3007>>>>,  \* டமேட் : தக்காளி
    <<<<2997,3014,2969,3021,2965,2991,2990,3021>>, <<2997,3014,2969,3021,2965,3006,2991,2990,3021>>>>,  \* வெங்கயம் : வெங்காயம்
    <<<<2997,3014,2969,3021,2965,3006,2991,2990>>, <<2997,3014,2969,3021,2965,3006,2991,2990,3021>>>>,  \* வெங்காயம : வெங்காயம்
    <<<<2962,2985,3007,2991,2985,3021>>, <<2997,3014,2969,3021,2965,3006,2991,2990,3021>>>>,  \* ஒனியன் : வெங்காயம்
    <<<<2953,2992,3009,2995,2965,3021,2965,3007,2996,2969,3021,2965,3009>>, <<2953,2992,3009,2995,3016,2965,3021,2965,3007,2996,2969,3021,2965,3009>>>>,  \* உருளக்கிழங்கு : உருளைக்கிழங்கு
    <<<<2953,2992,3009,2995,2965,3007,2996,2969,3021,2965,3009>>, <<2953,2992,3009,2995,3016,2965,3021,2965,3007,2996,2969,3021,2965,3009>>>>,  \* உருளகிழங்கு : உருளைக்கிழங்கு
    <<<<2953,2992,3009,2995,3016>>, <<2953,2992,3009,2995,3016,2965,3021,2965,3007,2996,2969,3021,2965,3009>>>>,  \* உருளை : உருளைக்கிழங்கு
    <<<<2965,2980,3021,2980,2992,3007,2965,3021,2965,3006,2991,3021>>, <<2965,2980,3021,2980,3007,2992,3007,2965,3021,2965,3006,2991,3021>>>>,  \* கத்தரிக்காய் : கத்திரிக்காய்
    <<<<2965,2980,3021,2980,2992,3007>>, <<2965,2980,3021,2980,3007,2992,3007,2965,3021,2965,3006,2991,3021>>>>,  \* கத்தரி : கத்திரிக்காய்
    <<<<2965,2980,3021,2992,3007>>, <<2965,2980,3021,2980,3007,2992,3007,2965,3021,2965,3006,2991,3021>>>>,  \* கத்ரி : கத்திரிக்காய்
    <<<<2990,3009,2992,3009,2969,3021,2965,3016>>, <<2990,3009,2992,3009,2969,3021,2965,3016,2965,3021,2965,3006,2991,3021>>>>,  \* முருங்கை : முருங்கைக்காய்
    <<<<2990,3009,2992,3009,2969,3021,2965>>, <<2990,3009,2992,3009,2969,3021,2965,3016,2965,3021,2965,3006,2991,3021>>>>,  \* முருங்க : முருங்கைக்காய்
    <<<<2975,3021,2992,2990,3021,32,3000,3021,2975,3007,2965,3021>>, <<2990,3009,2992,3009,2969,3021,2965,3016,2965,3021,2965,3006,2991,3021>>>>,  \* ட்ரம் ஸ்டிக் : முருங்கைக்காய்
    <<<<2997,3014,2979,3021,2975,2965,3021,2965,3006,2991,3021>>, <<2997,3014,2979,3021,2975,3016,2965,3021,2965,3006,2991,3021>>>>,  \* வெண்டக்காய் : வெண்டைக்காய்
    <<<<2997,3014,2979,3021,2975,3016>>, <<2997,3014,2979,3021,2975,3016,2965,3021,2965,3006,2991,3021>>>>,  \* வெண்டை : வெண்டைக்காய்
    <<<<2994,3015,2975,3007,32,2947,2986,3007,2969,3021,2965,2992,3021>>, <<2997,3014,2979,3021,2975,3016,2965,3021,2965,3006,2991,3021>>>>,  \* லேடி ஃபிங்கர் : வெண்டைக்காய்
    <<<<2965,3007,2994,3019,2965,3007,2992,3006,2990,3021>>, <<2965,3007,2994,3019>>>>,  \* கிலோகிராம் : கிலோ
    <<<<2965,3007,2994,3019,2965,3007,2992,3006>>, <<2965,3007,2994,3019>>>>,  \* கிலோகிரா : கிலோ
    <<<<2965,3007,2965,3007>>, <<2965,3007,2994,3019>>>>,  \* கிகி : கிலோ
    <<<<2965,3015,2972,3007>>, <<2965,3007,2994,3019>>>>,  \* கேஜி : கிலோ
    <<<<2994,3007,2975,3021,2975,2992,3009>>, <<2994,3007,2975,3021,2975,2992,3021>>>>,  \* லிட்டரு : லிட்டர்
    <<<<2994,3007,2975,3021,2975>>, <<2994,3007,2975,3021,2975,2992,3021>>>>,  \* லிட்ட : லிட்டர்
    <<<<2994,3007,2975,3021>>, <<2994,3007,2975,3021,2975,2992,3021>>>>,  \* லிட் : லிட்டர்
    <<<<2965,3007,2992,3006,2990,3009>>, <<2965,3007,2992,3006,2990,3021>>>>,  \* கிராமு : கிராம்
    <<<<2965,3007,2992,3006>>, <<2965,3007,2992,3006,2990,3021>>>>,  \* கிரா : கிராம்
    <<<<2972,3007,2958,2990,3021>>, <<2965,3007,2992,3006,2990,3021>>>>,  \* ஜிஎம் : கிராம்
    <<<<2997,3006,2996,2986,3021,2986,2996,2990,3021>>, <<2997,3006,2996,3016,2986,3021,2986,2996,2990,3021>>>>,  \* வாழப்பழம் : வாழைப்பழம்
    <<<<2997,3006,2996,3016>>, <<2997,3006,2996,3016,2986,3021,2986,2996,2990,3021>>>>,  \* வாழை : வாழைப்பழம்
    <<<<2986,2985,3006,2985,3006>>, <<2997,3006,2996,3016,2986,3021,2986,2996,2990,3021>>>>,  \* பனானா : வாழைப்பழம்
    <<<<2950,2986,3021,2986,2994,3021>>, <<2950,2986,3021,2986,3007,2995,3021>>>>,  \* ஆப்பல் : ஆப்பிள்
    <<<<2950,2986,3021>>, <<2950,2986,3021,2986,3007,2995,3021>>>>,  \* ஆப் : ஆப்பிள்
    <<<<2950,2986,3021,2986,3007,2993,3021>>, <<2950,2986,3021,2986,3007,2995,3021>>>>,  \* ஆப்பிற் : ஆப்பிள்
    <<<<2950,2992,2974,3021>>, <<2950,2992,2974,3021,2970,3009>>>>,  \* ஆரஞ் : ஆரஞ்சு
    <<<<2950,2992,2974,3021,2970,3021>>, <<2950,2992,2974,3021,2970,3009>>>>,  \* ஆரஞ்ச் : ஆரஞ்சு
    <<<<2950,2992,3021>>, <<2950,2992,2974,3021,2970,3009>>>>,  \* ஆர் : ஆரஞ்சு
    <<<<2990,3006,2990,3021,2986,2996>>, <<2990,3006,2990,3021,2986,2996,2990,3021>>>>,  \* மாம்பழ : மாம்பழம்
    <<<<2990,3006,2969,3021>>, <<2990,3006,2990,3021,2986,2996,2990,3021>>>>,  \* மாங் : மாம்பழம்
    <<<<2990,3015,2969,3021,2965,3019>>, <<2990,3006,2990,3021,2986,2996,2990,3021>>>>,  \* மேங்கோ : மாம்பழம்
    <<<<2986,3006,2994,3009>>, <<2986,3006,2994,3021>>>>,  \* பாலு : பால்
    <<<<2990,3007,2994,3021>>, <<2986,3006,2994,3021>>>>,  \* மில் : பால்
    <<<<2990,3007,2994,3021,2965,3021>>, <<2986,3006,2994,3021>>>>,  \* மில்க் : பால்
    <<<<2980,2991,3007,2992,3009>>, <<2980,2991,3007,2992,3021>>>>,  \* தயிரு : தயிர்
    <<<<2965,2992,3021,2975,3021>>, <<2980,2991,3007,2992,3021>>>>,  \* கர்ட் : தயிர்
    <<<<2980,2965,3007,2992,3021>>, <<2980,2991,3007,2992,3021>>>>,  \* தகிர் : தயிர்
    <<<<2984,3014,2991,3021,2991,3009>>, <<2984,3014,2991,3021>>>>,  \* நெய்யு : நெய்
    <<<<2965,3008>>, <<2984,3014,2991,3021>>>>,  \* கீ : நெய்
    <<<<2949,2992,3007,2970,3007,2991,3009>>, <<2949,2992,3007,2970,3007>>>>,  \* அரிசியு : அரிசி
    <<<<2992,3016,3000,3021>>, <<2949,2992,3007,2970,3007>>>>,  \* ரைஸ் : அரிசி
    <<<<2949,2992,3007,2970,3007,2991,3021>>, <<2949,2992,3007,2970,3007>>>>,  \* அரிசிய் : அரிசி
    <<<<2986,2992,3009,2986,3021,2986,3009>>, <<2986,2992,3009,2986,3021,2986,3009>>>>,  \* பருப்பு : பருப்பு
    <<<<2980,3006,2994,3021>>, <<2986,2992,3009,2986,3021,2986,3009>>>>,  \* தால் : பருப்பு
    <<<<2986,2992,3009,2986,3021>>, <<2986,2992,3009,2986,3021,2986,3009>>>>,  \* பருப் : பருப்பு
    <<<<2965,3019,2980,3009,2990,3016,2991,3009>>, <<2965,3019,2980,3009,2990,3016>>>>,  \* கோதுமையு : கோதுமை
    <<<<2997,3008,2975,3021>>, <<2965,3019,2980,3009,2990,3016>>>>,  \* வீட் : கோதுமை
    <<<<2975,2990,3015,2975,3021,2975,3019>>, <<2980,2965,3021,2965,3006,2995,3007>>>>,  \* டமேட்டோ : தக்காளி
    <<<<2986,3018,2975,3021,2975,3015,2975,3021,2975,3019>>, <<2953,2992,3009,2995,3016,2965,3021,2965,3007,2996,2969,3021,2965,3009>>>>,  \* பொட்டேட்டோ : உருளைக்கிழங்கு
    <<<<2965,3015,2992,2975,3021,2975,3009>>, <<2965,3015,2992,2975,3021>>>>,  \* கேரட்டு : கேரட்
    <<<<2986,3008,2985,3021,3000>>, <<2986,3008,2985,3021,3000,3021>>>>,  \* பீன்ஸ : பீன்ஸ்
    <<<<2992,3016,3000,3009>>, <<2949,2992,3007,2970,3007>>>>,  \* ரைஸு : அரிசி
    <<<<2949,2992,3016,2991,3021>>, <<2949,2992,3016>>>>,  \* அரைய் : அரை
    <<<<2965,3006,2994,3021,2994,3009>>, <<2965,3006,2994,3021>>>>,  \* கால்லு : கால்
    <<<<2990,3009,2965,3021,2965,3006,2994,3021,2994,3009>>, <<2990,3009,2965,3021,2965,3006,2994,3021>>>>,  \* முக்கால்லு : முக்கால்
    <<<<2962,2985,3021,2985,2992,3016,2991,3009>>, <<2962,2985,3021,2985,2992,3016>>>>,  \* ஒன்னரையு : ஒன்னரை
    <<<<2962,2979,3021,2979,2992,3016,2991,3009>>, <<2962,2979,3021,2979,2992,3016>>>>  \* ஒண்ணரையு : ஒண்ணரை
  >>

\* src/services/voiceParser.ts:431-436
codeMixingMap ==
  <<
    <<<<2975,2990,3015,2975,3021,2975,3019>>, <<2980,2965,3021,2965,3006,2995,3007>>>>,  \* டமேட்டோ : தக்காளி
    <<<<2962,2985,3007,2991,2985,3021>>, <<2997,3014,2969,3021,2965,3006,2991,2990,3021>>>>,  \* ஒனியன் : வெங்காயம்
    <<<<2986,3018,2975,3021,2975,3015,2975,3021,2975,3019>>, <<2953,2992,3009,2995,3016,2965,3021,2965,3007,2996,2969,3021,2965,3009>>>>,  \* பொட்டேட்டோ : உருளைக்கிழங்கு
    <<<<2990,3007,2994,3021,2965,3021>>, <<2986,3006,2994,3021>>>>,  \* மில்க் : பால்
    <<<<2992,3016,3000,3021>>, <<2949,2992,3007,2970,3007>>>>,  \* ரைஸ் : அரிசி
    <<<<2999,3009,2965,2992,3021>>, <<2970,2992,3021,2965,3021,2965,2992,3016>>>>,  \* ஷுகர் : சர்க்கரை
    <<<<2970,3006,2994,3021,2975,3021>>, <<2953,2986,3021,2986,3009>>>>,  \* சால்ட் : உப்பு
    <<<<2950,2991,3007,2994,3021>>, <<2958,2979,3021,2979,3014,2991,3021>>>>,  \* ஆயில் : எண்ணெய்
    <<<<2970,3007,2965,3021,2965,2985,3021>>, <<2965,3019,2996,3007>>>>,  \* சிக்கன் : கோழி
    <<<<2986,3007,3000,3021,2965,2975,3021,3000,3021>>, <<2986,3007,3000,3021,2965,2975,3021>>>>,  \* பிஸ்கட்ஸ் : பிஸ்கட்
    <<<<2970,3019,2986,3021,3000,3021>>, <<2970,3019,2986,3021,2986,3009>>>>  \* சோப்ஸ் : சோப்பு
  >>

\* src/unnamed/part_001:48-153
COLLOQUIAL_TO_FORMAL ==
  <<
    <<<<2980,2965,3021,2965,3006,2995,3007>>, <<2980,2965,3021,2965,3006,2995,3007>>>>,  \* தக்காளி : தக்காளி
    <<<<2980,2965,3021,2965,3006,2995>>, <<2980,2965,3021,2965,3006,2995,3007>>>>,  \* தக்காள : தக்காளி
    <<<<2997,3014,2969,3021,2965,3006,2991,2990,3021>>, <<2997,3014,2969,3021,2965,3006,2991,2990,3021>>>>,  \* வெங்காயம் : வெங்காயம்
    <<<<2997,3014,2969,3021,2965,3006,2995,2990,3021>>, <<2997,3014,2969,3021,2965,3006,2991,2990,3021>>>>,  \* வெங்காளம் : வெங்காயம்
    <<<<2997,3014,2969,3021,2965,2991,2990,3021>>, <<2997,3014,2969,3021,2965,3006,2991,2990,3021>>>>,  \* வெங்கயம் : வெங்காயம்
    <<<<2953,2992,3009,2995,3016>>, <<2953,2992,3009,2995,3016,2965,3021,2965,3007,2996,2969,3021,2965,3009>>>>,  \* உருளை : உருளைக்கிழங்கு
    <<<<2953,2992,3009,2995,2965,3021,2965,3007,2996,2969,3021,2965,3009>>, <<2953,2992,3009,2995,3016,2965,3021,2965,3007,2996,2969,3021,2965,3009>>>>,  \* உருளக்கிழங்கு : உருளைக்கிழங்கு
    <<<<2965,2980,3021,2980,3007,2992,3007>>, <<2965,2980,3021,2980,3007,2992,3007,2965,3021,2965,3006,2991,3021>>>>,  \* கத்திரி : கத்திரிக்காய்
    <<<<2965,2980,3021,2980,2992,3007,2965,3021,2965,3006,2991,3021>>, <<2965,2980,3021,2980,3007,2992,3007,2965,3021,2965,3006,2991,3021>>>>,  \* கத்தரிக்காய் : கத்திரிக்காய்
    <<<<2986,3008,2985,3021,3000,3021>>, <<2986,3008,2985,3021,3000,3021>>>>,  \* பீன்ஸ் : பீன்ஸ்
    <<<<2986,3008,2985,3021,3000,3021,2965,3006,2991,3021>>, <<2986,3008,2985,3021,3000,3021>>>>,  \* பீன்ஸ்காய் : பீன்ஸ்
    <<<<2986,2992,2969,3021,2965,3007>>, <<2986,2992,2969,3021,2965,3007,2965,3021,2965,3006,2991,3021>>>>,  \* பரங்கி : பரங்கிக்காய்
    <<<<2970,3015,2985,3016>>, <<2970,3015,2985,3016,2965,3021,2965,3007,2996,2969,3021,2965,3009>>>>,  \* சேனை : சேனைக்கிழங்கு
    <<<<2965,3015,2992,2975,3021>>, <<2965,3015,2992,2975,3021>>>>,  \* கேரட் : கேரட்
    <<<<2965,3006,2992,2975,3021>>, <<2965,3015,2992,2975,3021>>>>,  \* காரட் : கேரட்
    <<<<2986,3008,2975,3021,2992,3010,2975,3021>>, <<2986,3008,2975,3021,2992,3010,2975,3021>>>>,  \* பீட்ரூட் : பீட்ரூட்
    <<<<2990,3009,2995,3021,2995,2969,3021,2965,3007>>, <<2990,3009,2995,3021,2995,2969,3021,2965,3007>>>>,  \* முள்ளங்கி : முள்ளங்கி
    <<<<2990,3009,2994,3021,2994,2969,3021,2965,3007>>, <<2990,3009,2995,3021,2995,2969,3021,2965,3007>>>>,  \* முல்லங்கி : முள்ளங்கி
    <<<<2949,2992,3007,2970,3007>>, <<2949,2992,3007,2970,3007>>>>,  \* அரிசி : அரிசி
    <<<<2949,2992,3007,2970>>, <<2949,2992,3007,2970,3007>>>>,  \* அரிச : அரிசி
    <<<<2986,2992,3009,2986,3021,2986,3009>>, <<2986,2992,3009,2986,3021,2986,3009>>>>,  \* பருப்பு : பருப்பு
    <<<<2986,2992,3009,2986,3021,2986>>, <<2986,2992,3009,2986,3021,2986,3009>>>>,  \* பருப்ப : பருப்பு
    <<<<2980,3009,2997,2992,2990,3021>>, <<2980,3009,2997,2992,2990,3021,32,2986,2992,3009,2986,3021,2986,3009>>>>,  \* துவரம் : துவரம் பருப்பு
    <<<<2980,3009,2997,2992>>, <<2980,3009,2997,2992,2990,3021,32,2986,2992,3009,2986,3021,2986,3009>>>>,  \* துவர : துவரம் பருப்பு
    <<<<2953,2995,3009,2984,3021,2980,3009>>, <<2953,2995,3009,2984,3021,2980,3009>>>>,  \* உளுந்து : உளுந்து
    <<<<2953,2995,3009,2980,3021,2980,2990,3021>>, <<2953,2995,3009,2980,3021,2980,2990,3021,32,2986,2992,3009,2986,3021,2986,3009>>>>,  \* உளுத்தம் : உளுத்தம் பருப்பு
    <<<<2965,2975,2994,3016>>, <<2965,2975,2994,3016,2986,3021,2986,2992,3009,2986,3021,2986,3009>>>>,  \* கடலை : கடலைப்பருப்பு
    <<<<2986,3006,2970,3007,2986,3021,2986,2992,3009,2986,3021,2986,3009>>, <<2986,3006,2970,3007,2986,3021,2986,2992,3009,2986,3021,2986,3009>>>>,  \* பாசிப்பருப்பு : பாசிப்பருப்பு
    <<<<2986,3006,2970,3007>>, <<2986,3006,2970,3007,2986,3021,2986,2992,3009,2986,3021,2986,3009>>>>,  \* பாசி : பாசிப்பருப்பு
    <<<<2997,3006,2996,3016,2986,3021,2986,2996,2990,3021>>, <<2997,3006,2996,3016,2986,3021,2986,2996,2990,3021>>>>,  \* வாழைப்பழம் : வாழைப்பழம்
    <<<<2997,3006,2996,2986,3021,2986,2996,2990,3021>>, <<2997,3006,2996,3016,2986,3021,2986,2996,2990,3021>>>>,  \* வாழப்பழம் : வாழைப்பழம்
    <<<<2950,2986,3021,2986,3007,2995,3021>>, <<2950,2986,3021,2986,3007,2995,3021>>>>,  \* ஆப்பிள் : ஆப்பிள்
    <<<<2950,2986,3021,2986,2995,3021>>, <<2950,2986,3021,2986,3007,2995,3021>>>>,  \* ஆப்பள் : ஆப்பிள்
    <<<<2950,2992,2974,3021,2970,3009>>, <<2950,2992,2974,3021,2970,3009>>>>,  \* ஆரஞ்சு : ஆரஞ்சு
    <<<<2950,2992,2974,3021,2970>>, <<2950,2992,2974,3021,2970,3009>>>>,  \* ஆரஞ்ச : ஆரஞ்சு
    <<<<2980,3007,2992,3006,2975,3021,2970,3016>>, <<2980,3007,2992,3006,2975,3021,2970,3016>>>>,  \* திராட்சை : திராட்சை
    <<<<2980,3007,2992,3006,2970,3021,2970,3016>>, <<2980,3007,2992,3006,2975,3021,2970,3016>>>>,  \* திராச்சை : திராட்சை
    <<<<2990,3006,2990,3021,2986,2996,2990,3021>>, <<2990,3006,2990,3021,2986,2996,2990,3021>>>>,  \* மாம்பழம் : மாம்பழம்
    <<<<2990,3006,2969,3021,2965,3006>>, <<2990,3006,2969,3021,2965,3006,2991,3021>>>>,  \* மாங்கா : மாங்காய்
    <<<<2986,2986,3021,2986,3006,2995,3007>>, <<2986,2986,3021,2986,3006,2995,3007>>>>,  \* பப்பாளி : பப்பாளி
    <<<<2986,2986,3021,2986,3006,2991>>, <<2986,2986,3021,2986,3006,2995,3007>>>>,  \* பப்பாய : பப்பாளி
    <<<<2990,3007,2995,2965,3006,2991,3021>>, <<2990,3007,2995,2965,3006,2991,3021>>>>,  \* மிளகாய் : மிளகாய்
    <<<<2990,3007,2995,2965,3006>>, <<2990,3007,2995,2965,3006,2991,3021>>>>,  \* மிளகா : மிளகாய்
    <<<<2990,3007,2995,2965,3009>>, <<2990,3007,2995,2965,3009>>>>,  \* மிளகு : மிளகு
    <<<<2990,2994,3021,2994,3007>>, <<2990,2994,3021,2994,3007>>>>,  \* மல்லி : மல்லி
    <<<<2965,3018,2980,3021,2980,2990,2994,3021,2994,3007>>, <<2965,3018,2980,3021,2980,2990,2994,3021,2994,3007>>>>,  \* கொத்தமல்லி : கொத்தமல்லி
    <<<<2965,3018,2980,3021,2980,3009,2990,2994,3021,2994,3007>>, <<2965,3018,2980,3021,2980,2990,2994,3021,2994,3007>>>>,  \* கொத்துமல்லி : கொத்தமல்லி
    <<<<2986,3009,2980,3007,2985,3006>>, <<2986,3009,2980,3007,2985,3006>>>>,  \* புதினா : புதினா
    <<<<2986,3009,2980,3007,2985>>, <<2986,3009,2980,3007,2985,3006>>>>,  \* புதின : புதினா
    <<<<2965,2993,3007,2997,3015,2986,3021,2986,3007,2994,3016>>, <<2965,2993,3007,2997,3015,2986,3021,2986,3007,2994,3016>>>>,  \* கறிவேப்பிலை : கறிவேப்பிலை
    <<<<2965,2993,3007,2997,3015,2986,3021,2994>>, <<2965,2993,3007,2997,3015,2986,3021,2986,3007,2994,3016>>>>,  \* கறிவேப்ல : கறிவேப்பிலை
    <<<<2951,2974,3021,2970,3007>>, <<2951,2974,3021,2970,3007>>>>,  \* இஞ்சி : இஞ்சி
    <<<<2951,2974,3021,2970>>, <<2951,2974,3021,2970,3007>>>>,  \* இஞ்ச : இஞ்சி
    <<<<2986,3010,2979,3021,2975,3009>>, <<2986,3010,2979,3021,2975,3009>>>>,  \* பூண்டு : பூண்டு
    <<<<2986,3010,2979,3021,2975>>, <<2986,3010,2979,3021,2975,3009>>>>,  \* பூண்ட : பூண்டு
    <<<<2958,2979,3021,2979,3014,2991,3021>>, <<2958,2979,3021,2979,3014,2991,3021>>>>,  \* எண்ணெய் : எண்ணெய்
    <<<<2958,2979,3021,2979,3016>>, <<2958,2979,3021,2979,3014,2991,3021>>>>,  \* எண்ணை : எண்ணெய்
    <<<<2953,2986,3021,2986,3009>>, <<2953,2986,3021,2986,3009>>>>,  \* உப்பு : உப்பு
    <<<<2970,2992,3021,2965,3021,2965,2992,3016>>, <<2970,2992,3021,2965,3021,2965,2992,3016>>>>,  \* சர்க்கரை : சர்க்கரை
    <<<<2970,2965,3021,2965,2992>>, <<2970,2992,3021,2965,3021,2965,2992,3016>>>>,  \* சக்கர : சர்க்கரை
    <<<<2986,3006,2994,3021>>, <<2986,3006,2994,3021>>>>,  \* பால் : பால்
    <<<<2990,3009,2975,3021,2975,3016>>, <<2990,3009,2975,3021,2975,3016>>>>,  \* முட்டை : முட்டை
    <<<<2990,3009,2975,3021,2975>>, <<2990,3009,2975,3021,2975,3016>>>>,  \* முட்ட : முட்டை
    <<<<2980,2991,3007,2992,3021>>, <<2980,2991,3007,2992,3021>>>>,  \* தயிர் : தயிர்
    <<<<2980,2991,3007,2992,3009>>, <<2980,2991,3007,2992,3021>>>>,  \* தயிரு : தயிர்
    <<<<2984,3014,2991,3021>>, <<2984,3014,2991,3021>>>>,  \* நெய் : நெய்
    <<<<2997,3014,2979,3021,2979,3014,2991,3021>>, <<2997,3014,2979,3021,2979,3014,2991,3021>>>>,  \* வெண்ணெய் : வெண்ணெய்
    <<<<2997,3014,2979,3021,2979,3016>>, <<2997,3014,2979,3021,2979,3014,2991,3021>>>>,  \* வெண்ணை : வெண்ணெய்
    <<<<2986,2985,3021,2985,3008,2992,3021>>, <<2986,2985,3021,2985,3008,2992,3021>>>>,  \* பன்னீர் : பன்னீர்
    <<<<2986,2985,3008,2992,3021>>, <<2986,2985,3021,2985,3008,2992,3021>>>>,  \* பனீர் : பன்னீர்
    <<<<2965,3019,2996,3007>>, <<2965,3019,2996,3007,32,2951,2993,3016,2970,3021,2970,3007>>>>,  \* கோழி : கோழி இறைச்சி
    <<<<2970,3007,2965,3021,2965,2985,3021>>, <<2965,3019,2996,3007,32,2951,2993,3016,2970,3021,2970,3007>>>>,  \* சிக்கன் : கோழி இறைச்சி
    <<<<2990,2975,3021,2975,2985,3021>>, <<2950,2975,3021,2975,3009,32,2951,2993,3016,2970,3021,2970,3007>>>>,  \* மட்டன் : ஆட்டு இறைச்சி
    <<<<2990,3008,2985,3021>>, <<2990,3008,2985,3021>>>>,  \* மீன் : மீன்
    <<<<2965,3007,2994,3019>>, <<2965,3007,2994,3019,2965,3007,2992,3006,2990,3021>>>>,  \* கிலோ : கிலோகிராம்
    <<<<2965,3007,2994,3006>>, <<2965,3007,2994,3019,2965,3007,2992,3006,2990,3021>>>>,  \* கிலா : கிலோகிராம்
    <<<<2965,3015,2972,3007>>, <<2965,3007,2994,3019,2965,3007,2992,3006,2990,3021>>>>,  \* கேஜி : கிலோகிராம்
    <<<<2965,3007,2992,3006,2990,3021>>, <<2965,3007,2992,3006,2990,3021>>>>,  \* கிராம் : கிராம்
    <<<<2965,3007,2992,3006>>, <<2965,3007,2992,3006,2990,3021>>>>,  \* கிரா : கிராம்
    <<<<2994,3007,2975,3021,2975,2992,3021>>, <<2994,3007,2975,3021,2975,2992,3021>>>>,  \* லிட்டர் : லிட்டர்
    <<<<2994,3007,2975,3021,2975,2992,3009>>, <<2994,3007,2975,3021,2975,2992,3021>>>>,  \* லிட்டரு : லிட்டர்
    <<<<2986,3006,2965,3021,2965,3014,2975,3021>>, <<2986,3006,2965,3021,2965,3014,2975,3021>>>>,  \* பாக்கெட் : பாக்கெட்
    <<<<2986,3006,2965,3021,2965,2975,3021>>, <<2986,3006,2965,3021,2965,3014,2975,3021>>>>,  \* பாக்கட் : பாக்கெட்
    <<<<2986,3006,2965,3021>>, <<2986,3006,2965,3021,2965,3014,2975,3021>>>>,  \* பாக் : பாக்கெட்
    <<<<2992,3009,2986,3006,2991,3021>>, <<2992,3010,2986,3006,2991,3021>>>>,  \* ருபாய் : ரூபாய்
    <<<<2992,3009,2986,3006>>, <<2992,3010,2986,3006,2991,3021>>>>,  \* ருபா : ரூபாய்
    <<<<2992,3009,2997,3006>>, <<2992,3010,2986,3006,2991,3021>>>>,  \* ருவா : ரூபாய்
    <<<<2992,3010,2986,3016>>, <<2992,3010,2986,3006,2991,3021>>>>,  \* ரூபை : ரூபாய்
    <<<<2992,3010>>, <<2992,3010,2986,3006,2991,3021>>>>  \* ரூ : ரூபாய்
  >>

\* src/unnamed/part_001:163-202
TAMIL_GROCERY_LEXICON ==
  <<
    <<2980,2965,3021,2965,3006,2995,3007>>,  \* தக்காளி
    <<2997,3014,2969,3021,2965,3006,2991,2990,3021>>,  \* வெங்காயம்
    <<2953,2992,3009,2995,3016,2965,3021,2965,3007,2996,2969,3021,2965,3009>>,  \* உருளைக்கிழங்கு
    <<2965,2980,3021,2980,3007,2992,3007,2965,3021,2965,3006,2991,3021>>,  \* கத்திரிக்காய்
    <<2990,3009,2992,3009,2969,3021,2965,3016,2965,3021,2965,3006,2991,3021>>,  \* முருங்கைக்காய்
    <<2986,3006,2965,2993,3021,2965,3006,2991,3021>>,  \* பாகற்காய்
    <<2986,3009,2975,2994,2969,3021,2965,3006,2991,3021>>,  \* புடலங்காய்
    <<2970,3009,2992,3016,2965,3021,2965,3006,2991,3021>>,  \* சுரைக்காய்
    <<2986,3008,2992,3021,2965,3021,2965,2969,3021,2965,3006,2991,3021>>,  \* பீர்க்கங்காய்
    <<2997,3014,2979,3021,2975,3016,2965,3021,2965,3006,2991,3021>>,  \* வெண்டைக்காய்
    <<2949,2997,2992,3016,2965,3021,2965,3006,2991,3021>>,  \* அவரைக்காய்
    <<2986,3008,2985,3021,3000,3021>>,  \* பீன்ஸ்
    <<2986,2975,3021,2975,3006,2979,3007>>,  \* பட்டாணி
    <<2990,3009,2975,3021,2975,3016,2965,3019,3000,3021>>,  \* முட்டைகோஸ்
    <<2965,3006,2994,3007,2947,2986,3021,2995,2997,2992,3021>>,  \* காலிஃப்ளவர்
    <<2965,3015,2992,2975,3021>>,  \* கேரட்
    <<2986,3008,2975,3021,2992,3010,2975,3021>>,  \* பீட்ரூட்
    <<2990,3009,2995,3021,2995,2969,3021,2965,3007>>,  \* முள்ளங்கி
    <<2997,3006,2996,3016,2980,3021,2980,2979,3021,2975,3009>>,  \* வாழைத்தண்டு
    <<2997,3006,2996,3016,2986,3021,2986,3010>>,  \* வாழைப்பூ
    <<2965,3006,2991,3021,2965,2993,3007>>,  \* காய்கறி
    <<2965,3008,2992,3016>>,  \* கீரை
    <<2986,2970,2994,3016,2965,3021,2965,3008,2992,3016>>,  \* பசலைக்கீரை
    <<2990,3009,2992,3009,2969,3021,2965,3016,2965,3021,2965,3008,2992,3016>>,  \* முருங்கைக்கீரை
    <<2949,2992,3016,2965,3021,2965,3008,2992,3016>>,  \* அரைக்கீரை
    <<2990,2979,2980,3021,2980,2965,3021,2965,3006,2995,3007>>,  \* மணத்தக்காளி
    <<2986,3018,2985,3021,2985,3006,2969,3021,2965,2979,3021,2979,3007>>,  \* பொன்னாங்கண்ணி
    <<2997,3014,2984,3021,2980,2991,2965,3021,2965,3008,2992,3016>>,  \* வெந்தயக்கீரை
    <<2965,3018,2980,3021,2980,2990,2994,3021,2994,3007>>,  \* கொத்தமல்லி
    <<2986,3009,2980,3007,2985,3006>>,  \* புதினா
    <<2965,2993,3007,2997,3015,2986,3021,2986,3007,2994,3016>>,  \* கறிவேப்பிலை
    <<2986,3010,2970,2979,3007,2965,3021,2965,3006,2991,3021>>,  \* பூசணிக்காய்
    <<2970,3020,2970,3020>>,  \* சௌசௌ
    <<2965,3009,2975,3016,2990,3007,2995,2965,3006,2991,3021>>,  \* குடைமிளகாய்
    <<2986,2970,3021,2970,3016,2990,3007,2995,2965,3006,2991,3021>>,  \* பச்சைமிளகாய்
    <<2980,3015,2969,3021,2965,3006,2991,3021>>,  \* தேங்காய்
    <<2951,2974,3021,2970,3007>>,  \* இஞ்சி
    <<2986,3010,2979,3021,2975,3009>>,  \* பூண்டு
    <<2970,3007,2985,3021,2985,32,2997,3014,2969,3021,2965,3006,2991,2990,3021>>,  \* சின்ன வெங்காயம்
    <<2986,3014,2992,3007,2991,32,2997,3014,2969,3021,2965,3006,2991,2990,3021>>,  \* பெரிய வெங்காயம்
    <<2949,2992,3007,2970,3007>>,  \* அரிசி
    <<2986,3009,2996,3009,2969,3021,2965,2994,3021,32,2949,2992,3007,2970,3007>>,  \* புழுங்கல் அரிசி
    <<2986,3006,2970,3009,2990,2980,3007,32,2949,2992,3007,2970,3007>>,  \* பாசுமதி அரிசி
    <<2986,3018,2985,3021,2985,3007,32,2949,2992,3007,2970,3007>>,  \* பொன்னி அரிசி
    <<2965,3019,2980,3009,2990,3016>>,  \* கோதுமை
    <<2992,2997,3016>>,  \* ரவை
    <<2990,3016,2980,3006>>,  \* மைதா
    <<2970,3019,2995,2990,3021>>,  \* சோளம்
    <<2965,2990,3021,2986,3009>>,  \* கம்பு
    <<2992,3006,2965,3007>>,  \* ராகி
    <<2965,3015,2996,3021,2997,2992,2965,3009>>,  \* கேழ்வரகு
    <<2986,2992,3009,2986,3021,2986,3009>>,  \* பருப்பு
    <<2980,3009,2997,2992,2990,3021,32,2986,2992,3009,2986,3021,2986,3009>>,  \* துவரம் பருப்பு
    <<2965,2975,2994,3016,2986,3021,2986,2992,3009,2986,3021,2986,3009>>,  \* கடலைப்பருப்பு
    <<2953,2995,3009,2980,3021,2980,2990,3021,32,2986,2992,3009,2986,3021,2986,3009>>,  \* உளுத்தம் பருப்பு
    <<2986,3006,2970,3007,2986,3021,2986,2992,3009,2986,3021,2986,3009>>,  \* பாசிப்பருப்பு
    <<2990,2970,3010,2992,3021,32,2986,2992,3009,2986,3021,2986,3009>>,  \* மசூர் பருப்பு
    <<2965,3018,2979,3021,2975,2965,3021,2965,2975,2994,3016>>,  \* கொண்டக்கடலை
    <<2992,3006,2972,3021,2990,3006>>,  \* ராஜ்மா
    <<2953,2995,3009,2984,3021,2980,3009>>,  \* உளுந்து
    <<2986,2991,2993,3009>>,  \* பயறு
    <<2990,3018,2970,3021,2970,3016>>,  \* மொச்சை
    <<2970,3009,2979,3021,2975,2994,3021>>,  \* சுண்டல்
    <<2997,3006,2996,3016,2986,3021,2986,2996,2990,3021>>,  \* வாழைப்பழம்
    <<2950,2986,3021,2986,3007,2995,3021>>,  \* ஆப்பிள்
    <<2950,2992,2974,3021,2970,3009>>,  \* ஆரஞ்சு
    <<2980,3007,2992,3006,2975,3021,2970,3016>>,  \* திராட்சை
    <<2990,3006,2990,3021,2986,2996,2990,3021>>,  \* மாம்பழம்
    <<2990,3006,2969,3021,2965,3006,2991,3021>>,  \* மாங்காய்
    <<2986,2986,3021,2986,3006,2995,3007>>,  \* பப்பாளி
    <<2965,3018,2991,3021,2991,3006>>,  \* கொய்யா
    <<2970,2986,3021,2986,3019,2975,3021,2975,3006>>,  \* சப்போட்டா
    <<2986,2994,3006,2986,3021,2986,2996,2990,3021>>,  \* பலாப்பழம்
    <<2949,2985,3021,2985,3006,2970,3007>>,  \* அன்னாசி
    <<2980,2992,3021,2986,3010,2970,2979,3007>>,  \* தர்பூசணி
    <<2990,3009,2994,3006,2990,3021,2986,2996,2990,3021>>,  \* முலாம்பழம்
    <<2986,3015,2992,3007,2965,3021,2965,3006,2991,3021>>,  \* பேரிக்காய்
    <<2990,3006,2980,3009,2995,3016>>,  \* மாதுளை
    <<2958,2994,3009,2990,3007,2970,3021,2970,3016>>,  \* எலுமிச்சை
    <<2970,3006,2980,3021,2980,3009,2965,3021,2965,3009,2975,3007>>,  \* சாத்துக்குடி
    <<2984,3006,2992,2980,3021,2980,3016>>,  \* நாரத்தை
    <<2984,3014,2994,3021,2994,3007,2965,3021,2965,3006,2991,3021>>,  \* நெல்லிக்காய்
    <<2986,3006,2994,3021>>,  \* பால்
    <<2980,2991,3007,2992,3021>>,  \* தயிர்
    <<2990,3019,2992,3021>>,  \* மோர்
    <<2984,3014,2991,3021>>,  \* நெய்
    <<2997,3014,2979,3021,2979,3014,2991,3021>>,  \* வெண்ணெய்
    <<2986,2985,3021,2985,3008,2992,3021>>,  \* பன்னீர்
    <<2970,3008,3000,3021>>,  \* சீஸ்
    <<2990,3007,2995,2965,3009>>,  \* மிளகு
    <<2990,3007,2995,2965,3006,2991,3021>>,  \* மிளகாய்
    <<2990,2974,3021,2970,2995,3021>>,  \* மஞ்சள்
    <<2970,3008,2992,2965,2990,3021>>,  \* சீரகம்
    <<2965,2975,3009,2965,3009>>,  \* கடுகு
    <<2997,3014,2984,3021,2980,2991,2990,3021>>,  \* வெந்தயம்
    <<2970,3019,2990,3021,2986,3009>>,  \* சோம்பு
    <<2959,2994,2965,3021,2965,3006,2991,3021>>,  \* ஏலக்காய்
    <<2986,2975,3021,2975,3016>>,  \* பட்டை
    <<2965,3007,2992,3006,2990,3021,2986,3009>>,  \* கிராம்பு
    <<2972,3006,2980,3007,2965,3021,2965,3006,2991,3021>>,  \* ஜாதிக்காய்
    <<2953,2986,3021,2986,3009>>,  \* உப்பு
    <<2970,2992,3021,2965,3021,2965,2992,3016>>,  \* சர்க்கரை
    <<2997,3014,2994,3021,2994,2990,3021>>,  \* வெல்லம்
    <<2980,3015,2985,3021>>,  \* தேன்
    <<2958,2979,3021,2979,3014,2991,3021>>,  \* எண்ணெய்
    <<2984,2994,3021,2994,3014,2979,3021,2979,3014,2991,3021>>,  \* நல்லெண்ணெய்
    <<2980,3015,2969,3021,2965,3006,2991,3021,32,2958,2979,3021,2979,3014,2991,3021>>,  \* தேங்காய் எண்ணெய்
    <<2965,2975,2994,3016,32,2958,2979,3021,2979,3014,2991,3021>>,  \* கடலை எண்ணெய்
    <<2990,3009,2975,3021,2975,3016>>,  \* முட்டை
    <<2965,3019,2996,3007,32,2951,2993,3016,2970,3021,2970,3007>>,  \* கோழி இறைச்சி
    <<2950,2975,3021,2975,3009,32,2951,2993,3016,2970,3021,2970,3007>>,  \* ஆட்டு இறைச்சி
    <<2990,3008,2985,3021>>,  \* மீன்
    <<2992,3010,2986,3006,2991,3021>>,  \* ரூபாய்
    <<2965,3007,2994,3019,2965,3007,2992,3006,2990,3021>>,  \* கிலோகிராம்
    <<2965,3007,2992,3006,2990,3021>>,  \* கிராம்
    <<2994,3007,2975,3021,2975,2992,3021>>,  \* லிட்டர்
    <<2990,3007,2994,3021,2994,3007,32,2994,3007,2975,3021,2975,2992,3021>>,  \* மில்லி லிட்டர்
    <<2986,3006,2965,3021,2965,3014,2975,3021>>,  \* பாக்கெட்
    <<2965,2975,3021,2975,3009>>,  \* கட்டு
    <<2975,2972,2985,3021>>,  \* டஜன்
    <<2986,3014,2975,3021,2975,3007>>,  \* பெட்டி
    <<2990,3010,2975,3021,2975,3016>>  \* மூட்டை
  >>

(***************************************************************************)
(* Similarity of two strings (voiceParser.ts)                              *)
(***************************************************************************)
\* a similarity 1 - distance / maxLen is the fraction <<maxLen - distance, maxLen>>
\* (not reduced); fractions are compared by cross multiplication
FracGeq(a, b) == a[1] * b[2] >= b[1] * a[2]
FracGt(a, b) == a[1] * b[2] > b[1] * a[2]
FracEq(a, b) == a[1] * b[2] = b[1] * a[2]

\* The matrix of calculateSimilarity is the sequence of its rows, row[j + 1]
\* of matrix[i + 1] being matrix[i][j].  MatrixRow extends row i by the cell
\* of column j = Len(row), MatrixFill the matrix by row i = Len(matrix).
RECURSIVE MatrixRow(_, _, _, _)
MatrixRow(prev, ch, str2, row) ==
  LET j == Len(row)
  IN IF j > Len(str2) THEN row
     ELSE LET cost == IF ch = str2[j] THEN 0 ELSE 1
              cell == Min2(Min2(prev[j + 1] + 1, row[j] + 1), prev[j] + cost)
          IN MatrixRow(prev, ch, str2, Append(row, cell))

RECURSIVE MatrixFill(_, _, _)
MatrixFill(str1, str2, matrix) ==
  LET i == Len(matrix)
  IN IF i > Len(str1) THEN matrix
     ELSE MatrixFill(str1, str2,
                     Append(matrix, MatrixRow(matrix[i], str1[i], str2, <<i>>)))

\* the distance divided by the length of the first string instead of the
\* longer one
calculateSimilarityByFirstLength(str1, str2) ==
  LET len1 == Len(str1)
      len2 == Len(str2)
      matrix == MatrixFill(str1, str2, <<[j \in 1..(len2 + 1) |-> j - 1] \o <<>>>>)
  IN IF Max2(len1, len2) = 0 THEN <<1, 1>>
     ELSE <<len1 - matrix[len1 + 1][len2 + 1], len1>>

calculateSimilarity(str1, str2) ==
  LET len1 == Len(str1)
      len2 == Len(str2)
      matrix == MatrixFill(str1, str2, <<[j \in 1..(len2 + 1) |-> j - 1] \o <<>>>>)
      maxLen == Max2(len1, len2)
  IN IF maxLen = 0 THEN <<1, 1>>
     ELSE <<maxLen - matrix[len1 + 1][len2 + 1], maxLen>>

\* SIMILARITY_THRESHOLD = 0.8
SIMILARITY_THRESHOLD == <<4, 5>>

\* the first, in the order of the indices, of the scored entries <<index,
\* similarity>> of greatest similarity: what a loop keeps that replaces its
\* best entry only by one of strictly greater similarity
FirstOfGreatest(scored) ==
  CHOOSE p \in scored :
    \A q \in scored : FracGt(p[2], q[2]) \/ (FracEq(p[2], q[2]) /\ p[1] <= q[1])

\* An edit distance is at least the difference of the lengths, and at least
\* the number of letters of the word that the item does not hold (each of
\* them is deleted or substituted), so an item that these two counts alone
\* put below the threshold cannot reach it.
MayReachThreshold(normalizedWord, item) ==
  LET m == Max2(Len(normalizedWord), Len(item))
      gap == m - Min2(Len(normalizedWord), Len(item))
      letters == {LowerChar(item[k]) : k \in 1..Len(item)}
      missing == Cardinality({k \in 1..Len(normalizedWord) : normalizedWord[k] \notin letters})
  IN m = 0 \/ (/\ FracGeq(<<m - gap, m>>, SIMILARITY_THRESHOLD)
               /\ FracGeq(<<m - missing, m>>, SIMILARITY_THRESHOLD))

\* the items that pass  similarity > bestScore  alone
ReachingItemsAnyScore(normalizedWord, items) ==
  {p \in {<<i, calculateSimilarity(normalizedWord, toLowerCase(items[i]))>> : i \in 1..Len(items)} :
     FracGt(p[2], <<0, 1>>)}

\* the items that pass  similarity >= SIMILARITY_THRESHOLD && similarity >
\* bestScore  for the initial bestScore 0, with their similarities
ReachingItems(normalizedWord, items) ==
  {p \in {<<i, calculateSimilarity(normalizedWord, toLowerCase(items[i]))>> :
            i \in {x \in 1..Len(items) : MayReachThreshold(normalizedWord, items[x])}} :
     FracGeq(p[2], SIMILARITY_THRESHOLD) /\ FracGt(p[2], <<0, 1>>)}

BestMatchOr(word, items, reaching) ==
  IF reaching = {} THEN word ELSE items[FirstOfGreatest(reaching)[1]]

\* The loop of performSemanticVerification keeps the first item, in the order
\* of the array, whose similarity is at least the threshold and greater than
\* every score before it; without such an item the word is returned.
performSemanticVerification(word, items) ==
  BestMatchOr(word, items, ReachingItems(trim(toLowerCase(word)) \o <<>>, items))

\* The names every object inherits from Object.prototype: table[name] is then a
\* function (or, for __proto__, Object.prototype itself), not undefined
ObjectPrototypeProperties ==
  {
    <<99,111,110,115,116,114,117,99,116,111,114>>,  \* constructor
    <<95,95,112,114,111,116,111,95,95>>,  \* __proto__
    <<116,111,83,116,114,105,110,103>>,  \* toString
    <<118,97,108,117,101,79,102>>,  \* valueOf
    <<104,97,115,79,119,110,80,114,111,112,101,114,116,121>>,  \* hasOwnProperty
    <<105,115,80,114,111,116,111,116,121,112,101,79,102>>,  \* isPrototypeOf
    <<112,114,111,112,101,114,116,121,73,115,69,110,117,109,101,114,97,98,108,101>>,  \* propertyIsEnumerable
    <<116,111,76,111,99,97,108,101,83,116,114,105,110,103>>,  \* toLocaleString
    <<95,95,100,101,102,105,110,101,71,101,116,116,101,114,95,95>>,  \* __defineGetter__
    <<95,95,100,101,102,105,110,101,83,101,116,116,101,114,95,95>>,  \* __defineSetter__
    <<95,95,108,111,111,107,117,112,71,101,116,116,101,114,95,95>>,  \* __lookupGetter__
    <<95,95,108,111,111,107,117,112,83,101,116,116,101,114,95,95>>  \* __lookupSetter__
  }

UYIR_VOWELS == {2949, 2950, 2951, 2952, 2953, 2954, 2958, 2959, 2960, 2962, 2963, 2964}
MEI_CONSONANTS ==
  {<<2965,3021>>, <<2969,3021>>, <<2970,3021>>, <<2974,3021>>, <<2975,3021>>, <<2979,3021>>, <<2980,3021>>, <<2984,3021>>, <<2986,3021>>, <<2990,3021>>, <<2991,3021>>, <<2992,3021>>, <<2994,3021>>, <<2997,3021>>, <<2996,3021>>, <<2995,3021>>, <<2993,3021>>, <<2985,3021>>}
(***************************************************************************)
(* Tamil linguistic formalization engine (tamilLinguisticEngine)           *)
(***************************************************************************)
TAMIL_UNICODE_START == 2944
TAMIL_UNICODE_END == 3071
PULLI == 3021

\* levenshteinDistance: dp is the sequence of its rows, row[j + 1] of dp[i + 1]
\* being dp[i][j]; DpRow extends row i by the cell of column j = Len(row)
RECURSIVE DpRow(_, _, _, _)
DpRow(prev, ch, str2, row) ==
  LET j == Len(row)
  IN IF j > Len(str2) THEN row
     ELSE LET cell == IF ch = str2[j]
                      THEN prev[j]
                      ELSE 1 + Min2(Min2(prev[j + 1], row[j]), prev[j])
          IN DpRow(prev, ch, str2, Append(row, cell))

RECURSIVE DpFill(_, _, _)
DpFill(str1, str2, dp) ==
  LET i == Len(dp)
  IN IF i > Len(str1) THEN dp
     ELSE DpFill(str1, str2, Append(dp, DpRow(dp[i], str1[i], str2, <<i>>)))

levenshteinDistance(str1, str2) ==
  DpFill(str1, str2, <<[j \in 1..(Len(str2) + 1) |-> j - 1] \o <<>>>>)[Len(str1) + 1][Len(str2) + 1]

\* calculateSimilarity of the engine, as the fraction <<maxLen - distance, maxLen>>
engineCalculateSimilarity(str1, str2) ==
  LET maxLen == Max2(Len(str1), Len(str2))
  IN IF maxLen = 0 THEN <<1, 1>>
     ELSE <<maxLen - levenshteinDistance(str1, str2), maxLen>>

\* findClosestLexiconMatch: the loop keeps the first lexicon word of the greatest
\* similarity, if that similarity is above 0; the match is returned only when
\* the similarity reaches the threshold
LexiconScores(word, lexicon) ==
  {p \in {<<i, engineCalculateSimilarity(word, lexicon[i])>> : i \in 1..Len(lexicon)} :
     FracGt(p[2], <<0, 1>>)}
ClosestOf(word, threshold, lexicon, best) ==
  IF FracGeq(best[2], threshold)
  THEN [match |-> lexicon[best[1]], similarity |-> best[2]]
  ELSE [match |-> word, similarity |-> best[2]]
ClosestIn(word, threshold, lexicon, scores) ==
  IF scores = {} THEN [match |-> word, similarity |-> <<0, 1>>]
  ELSE ClosestOf(word, threshold, lexicon, FirstOfGreatest(scores))
findClosestLexiconMatch(word, threshold) ==
  ClosestIn(word, threshold, TAMIL_GROCERY_LEXICON,
            LexiconScores(word, TAMIL_GROCERY_LEXICON))

isTamilChar(c) == c >= TAMIL_UNICODE_START /\ c <= TAMIL_UNICODE_END
containsTamil(text) == \E i \in 1..Len(text) : isTamilChar(text[i])

startsWithMei(word) == Len(word) >= 2 /\ SubSeq(word, 1, 2) \in MEI_CONSONANTS

\* validateTamilOrthography reads word.split: a value that is not a string has
\* none, and the call throws a TypeError; the issues found are advisory
validateTamilOrthography(word) ==
  IF word = NONSTRING THEN [threw |-> TRUE, isValid |-> FALSE, issues |-> 0]
  ELSE IF ~containsTamil(word) THEN [threw |-> FALSE, isValid |-> TRUE, issues |-> 0]
  ELSE LET mei == IF startsWithMei(word) THEN 1 ELSE 0
           uyir == Cardinality({i \in 2..(Len(word) - 1) : word[i] \in UYIR_VOWELS})
       IN [threw |-> FALSE, isValid |-> mei + uyir = 0, issues |-> mei + uyir]

\* text.normalize('NFC') on ASCII and the Tamil block: the canonical
\* compositions of the block are the two-part vowel signs and AU
NfcPair(a, b) ==
  /\ b \in {3006, 3031}
  /\ \/ (a = 2962 /\ b = 3031)
     \/ (a = 3014 /\ b = 3006)
     \/ (a = 3015 /\ b = 3006)
     \/ (a = 3014 /\ b = 3031)
NfcCompose(a, b) ==
  IF a = 2962 THEN 2964
  ELSE IF a = 3015 THEN 3019
  ELSE IF b = 3006 THEN 3018 ELSE 3020
normalizeUnicode(text) ==
  LET marked == [i \in 1..Len(text) |->
                   IF i < Len(text) /\ NfcPair(text[i], text[i + 1])
                   THEN NfcCompose(text[i], text[i + 1])
                   ELSE IF i > 1 /\ NfcPair(text[i - 1], text[i]) THEN -1
                   ELSE text[i]]
  IN SelectSeq(marked, LAMBDA c : c # -1)

\* strips the zero-width characters, collapses white space, trims
normalizeWhitespace(text) ==
  trim(CollapseSpaces(SelectSeq(text, LAMBDA c : ~(c \in {8203, 8204, 8205, 65279}))))

\* the ellipsis becomes three dots, the en and em dashes a hyphen (the two
\* quote classes of the source hold the straight quotes they are replaced by)
normalizePunctuation(text) ==
  Concat([i \in 1..Len(text) |->
            IF text[i] = 8230 THEN <<46, 46, 46>>
            ELSE IF text[i] \in {8211, 8212} THEN <<45>>
            ELSE <<text[i]>>])

\* handleCodeMixing returns every word as it is, preserved or not
handleCodeMixing(text) == text

\* text.split(/(\s+)/) of a text that neither starts nor ends with white
\* space: the maximal runs of white space and of other characters, in order
SplitKeepingSpaces(text) ==
  LET starts == {i \in 1..Len(text) : i = 1 \/ IsSpace(text[i]) # IsSpace(text[i - 1])}
      n == Cardinality(starts)
      nth(k) == CHOOSE s \in starts : Cardinality({x \in starts : x <= s}) = k
  IN [k \in 1..n |->
        SubSeq(text, nth(k), IF k = n THEN Len(text) ELSE nth(k + 1) - 1)]

\* table[key] of a Record<string,string>: an own key gives its value, a name
\* inherited from Object.prototype a value that is not a string, any other
\* key undefined
PropertyOf(table, key) ==
  LET own == {i \in 1..Len(table) : table[i][1] = key}
  IN IF own # {} THEN table[SetMin(own)][2]
     ELSE IF key \in ObjectPrototypeProperties THEN NONSTRING
     ELSE NULL

\* lines 518-529: the closest lexicon word when it is another word
\* and its similarity reaches 0.75
AsrCorrected(word, found) ==
  IF found.match # word /\ FracGeq(found.similarity, <<3, 4>>) THEN found.match ELSE word

\* lines 497-516: COLLOQUIAL_TO_FORMAL[word], else
\* COLLOQUIAL_TO_FORMAL[lowerWord], else the closest lexicon word for a word with Tamil
DiglossiaMapped(word, exact, lower) ==
  IF exact # NULL THEN exact
  ELSE IF lower # NULL THEN lower
  ELSE IF containsTamil(word) THEN AsrCorrected(word, findClosestLexiconMatch(word, <<3, 4>>))
  ELSE word

\* lines 532-535: validateTamilOrthography(processedWord) throws
\* for a value that is not a string
Validated(processedWord) ==
  IF validateTamilOrthography(processedWord).threw THEN THREW ELSE processedWord

\* the body of the loop of processTamilText for one element of words: the
\* processed word, or THREW
ProcessWord(word) ==
  IF \A i \in 1..Len(word) : IsSpace(word[i]) THEN word
  ELSE IF \A i \in 1..Len(word) : IsDigit(word[i]) \/ word[i] \in {46, 44, 8377} THEN word
  ELSE Validated(DiglossiaMapped(word, PropertyOf(COLLOQUIAL_TO_FORMAL, word),
                                 PropertyOf(COLLOQUIAL_TO_FORMAL, toLowerCase(word))))

\* processedWords.join(''), or THREW when the loop threw
JoinProcessed(processedWords) ==
  IF \E k \in 1..Len(processedWords) : processedWords[k] = THREW THEN THREW
  ELSE Concat(processedWords)

ProcessWords(words) == JoinProcessed([k \in 1..Len(words) |-> ProcessWord(words[k])] \o <<>>)

\* processTamilText(rawText).processedText, or THREW
processTamilText(rawText) ==
  IF trim(rawText) = <<>> THEN rawText
  ELSE ProcessWords(SplitKeepingSpaces(handleCodeMixing(
         normalizePunctuation(normalizeWhitespace(normalizeUnicode(rawText))))) \o <<>>)

formalizeTamilForPDF(rawText) == processTamilText(rawText)

(***************************************************************************)
(* Global replacement: text.replace(/.../g, ...)                           *)
(***************************************************************************)
FirstOrZero(S) == IF S = {} THEN 0 ELSE SetMin(S)

\* `ends` gives, for every start index, the last index of the match of the
\* pattern that starts there, 0 when it does not match there (no pattern of
\* the program matches the empty string).  A global regular expression
\* takes its matches from left to right, each search starting after the
\* previous match.
RECURSIVE MatchStarts(_, _)
MatchStartsFrom(ends, s) ==
  IF s = 0 THEN <<>> ELSE <<s>> \o MatchStarts(ends, ends[s] + 1)
MatchStarts(ends, from) ==
  MatchStartsFrom(ends, FirstOrZero({i \in from..Len(ends) : ends[i] > 0}))

\* the text before match k, from the end of the match before it (for k
\* above the number of matches: the text after the last match)
Before(t, ends, starts, k) ==
  SubSeq(t, IF k = 1 THEN 1 ELSE ends[starts[k - 1]] + 1,
            IF k > Len(starts) THEN Len(t) ELSE starts[k] - 1)

\* the text with the matches that start at `starts` replaced: reps[i] is the
\* replacement of the match that starts at i
ReplaceAt(t, ends, reps, starts) ==
  Concat([k \in 1..(Len(starts) + 1) |->
            IF k > Len(starts) THEN Before(t, ends, starts, k)
            ELSE Before(t, ends, starts, k) \o reps[starts[k]]])

ReplaceMatches(t, ends, reps) == ReplaceAt(t, ends, reps, MatchStarts(ends, 1))

\* \b at the gap before index p: one side is a \w character and the other is
\* not (the outside of the text is not)
WordBoundary(t, p) ==
  (p - 1 >= 1 /\ p - 1 <= Len(t) /\ IsWordChar(t[p - 1]))
    # (p >= 1 /\ p <= Len(t) /\ IsWordChar(t[p]))

(***************************************************************************)
(* normalizeNumbers                                                        *)
(***************************************************************************)
\* where the key of a match of (^|\s)key(\s|$) that starts at i begins: at 1
\* for ^, after the white space character otherwise; 0 without the key there
NumberWordAt(t, i, key) ==
  IF i = 1 /\ StartsAtCI(t, 1, key) THEN 1
  ELSE IF IsSpace(t[i]) /\ StartsAtCI(t, i + 1, key) THEN i + 1
  ELSE 0

\* the last index of the match whose key begins at `at` and ends before
\* `after`: the white space character after the key, or the key's end at $
NumberWordEndAfter(t, at, after) ==
  IF at = 0 THEN 0
  ELSE IF after <= Len(t) /\ IsSpace(t[after]) THEN after
  ELSE IF after = Len(t) + 1 THEN after - 1
  ELSE 0

\* new RegExp(`(^|\\s)${key}(\\s|$)`, 'gi') at start index i: the last index
\* of the match, 0 when there is none
NumberWordEnd(t, i, key) ==
  NumberWordEndAfter(t, NumberWordAt(t, i, key), NumberWordAt(t, i, key) + Len(key))

\* `$1${value}$2` for the match from i to e
NumberWordReplacement(t, i, e, key, value) ==
  (IF IsSpace(t[i]) THEN <<t[i]>> ELSE <<>>)
    \o value
    \o (IF IsSpace(t[e]) /\ e >= i + Len(key) THEN <<t[e]>> ELSE <<>>)

\* normalized.replace(regex, `$1${value}$2`)
ReplaceNumberWord(t, key, value) ==
  ReplaceMatches(t,
    [i \in 1..Len(t) |-> NumberWordEnd(t, i, key)] \o <<>>,
    [i \in 1..Len(t) |-> NumberWordReplacement(t, i, NumberWordEnd(t, i, key), key, value)])

\* Object.keys(map).forEach(key => normalized = normalized.replace(...)) from
\* the key of index `from` on: a key whose pattern does not match leaves the
\* text as it is, so the loop goes from one matching key to the next (a
\* match starts at the first character or at a white space character)
RECURSIVE ReplaceNumberWords(_, _, _)
ReplaceNumberWordsAt(t, map, k) ==
  IF k = 0 THEN t
  ELSE ReplaceNumberWords(ReplaceNumberWord(t, map[k][1], map[k][2]), map, k + 1)
NextNumberWord(t, map, from, starts) ==
  FirstOrZero({k \in from..Len(map) : \E i \in starts : NumberWordEnd(t, i, map[k][1]) > 0})
ReplaceNumberWords(t, map, from) ==
  ReplaceNumberWordsAt(t, map,
    NextNumberWord(t, map, from, {i \in 1..Len(t) : i = 1 \/ IsSpace(t[i])}))

\* the first index of the key of a match of (\d+)\s*key\b that starts at i
RateCorrectionAt(t, i) == SpacesEnd(t, DigitsEnd(t, i) + 1) + 1

\* new RegExp(`(\\d+)\\s*${key}\\b`, 'gi') at start index i
RateCorrectionEnd(t, i, key) ==
  IF /\ IsDigit(t[i])
     /\ StartsAtCI(t, RateCorrectionAt(t, i), key)
     /\ WordBoundary(t, RateCorrectionAt(t, i) + Len(key))
  THEN RateCorrectionAt(t, i) + Len(key) - 1
  ELSE 0

\* normalized.replace(regex, `$1 ${value}`)
ReplaceRateCorrection(t, key, value) ==
  ReplaceMatches(t,
    [i \in 1..Len(t) |-> RateCorrectionEnd(t, i, key)] \o <<>>,
    [i \in 1..Len(t) |-> SubSeq(t, i, DigitsEnd(t, i)) \o <<32>> \o value])

\* Object.keys(RATE_CORRECTIONS).forEach(...), as for the number words (a
\* match starts at a digit)
RECURSIVE ReplaceRateCorrections(_, _, _)
ReplaceRateCorrectionsAt(t, map, k) ==
  IF k = 0 THEN t
  ELSE ReplaceRateCorrections(ReplaceRateCorrection(t, map[k][1], map[k][2]), map, k + 1)
NextRateCorrection(t, map, from, starts) ==
  FirstOrZero({k \in from..Len(map) : \E i \in starts : RateCorrectionEnd(t, i, map[k][1]) > 0})
ReplaceRateCorrections(t, map, from) ==
  ReplaceRateCorrectionsAt(t, map,
    NextRateCorrection(t, map, from, {i \in 1..Len(t) : IsDigit(t[i])}))

\* the index of the ones digit of a match of (\d0)\s+(\d)(?!\d) that starts
\* at i, when t[i] t[i + 1] is a digit and 0
CompoundOnesAt(t, i) == SpacesEnd(t, i + 2) + 1

\* /(\d0)\s+(\d)(?!\d)/g at start index i
CompoundEnd(t, i) ==
  IF /\ i + 1 <= Len(t)
     /\ IsDigit(t[i])
     /\ t[i + 1] = 48
     /\ CompoundOnesAt(t, i) > i + 2
     /\ CompoundOnesAt(t, i) <= Len(t)
     /\ IsDigit(t[CompoundOnesAt(t, i)])
     /\ ~(CompoundOnesAt(t, i) + 1 <= Len(t) /\ IsDigit(t[CompoundOnesAt(t, i) + 1]))
  THEN CompoundOnesAt(t, i)
  ELSE 0

\* (_, tens, ones) => String(parseInt(tens) + parseInt(ones))
ReplaceCompoundNumbers(t) ==
  ReplaceMatches(t,
    [i \in 1..Len(t) |-> CompoundEnd(t, i)] \o <<>>,
    [i \in 1..Len(t) |->
       IntToString(parseInt(SubSeq(t, i, i + 1)) + parseInt(<<t[CompoundEnd(t, i)]>>))])

normalizeNumbers(text) ==
  trim(CollapseSpaces(ReplaceCompoundNumbers(
    ReplaceRateCorrections(
      ReplaceNumberWords(
        ReplaceNumberWords(toLowerCase(text) \o <<>>, TAMIL_NUMBER_MAP, 1),
        ENGLISH_NUMBER_MAP, 1),
      RATE_CORRECTIONS, 1))))

(***************************************************************************)
(* preprocessTranscript                                                    *)
(***************************************************************************)
\* processed.replace(/[.,;:]+/g, ' ')
AsrPunctuation == {46, 44, 59, 58}
ReplaceAsrPunctuation(t) ==
  SelectSeq([i \in 1..Len(t) |->
               IF t[i] \notin AsrPunctuation THEN t[i]
               ELSE IF i > 1 /\ t[i - 1] \in AsrPunctuation THEN -1 ELSE 32],
            LAMBDA c : c # -1)

\* new RegExp(`\\b${key}\\b`, 'gi') at start index i
WholeWordEnd(t, i, key) ==
  IF StartsAtCI(t, i, key) /\ WordBoundary(t, i) /\ WordBoundary(t, i + Len(key))
  THEN i + Len(key) - 1
  ELSE 0

ReplaceWholeWord(t, key, value) ==
  ReplaceMatches(t, [i \in 1..Len(t) |-> WholeWordEnd(t, i, key)] \o <<>>,
                    [i \in 1..Len(t) |-> value])

\* Object.keys(map).forEach(key => processed = processed.replace(...))
RECURSIVE ReplaceWholeWords(_, _, _)
ReplaceWholeWordsAt(t, map, k) ==
  IF k = 0 THEN t
  ELSE ReplaceWholeWords(ReplaceWholeWord(t, map[k][1], map[k][2]), map, k + 1)
ReplaceWholeWords(t, map, from) ==
  ReplaceWholeWordsAt(t, map,
    FirstOrZero({k \in from..Len(map) :
                   \E i \in 1..Len(t) : WholeWordEnd(t, i, map[k][1]) > 0}))

\* the last index of the word that starts at s
WordEnd(text, s) ==
  FirstOrZero({j \in s..Len(text) : IsSpace(text[j]) \/ j = Len(text)})
    - (IF \E j \in s..Len(text) : IsSpace(text[j]) THEN 1 ELSE 0)

\* the k-th of the indices of a set
NthOf(S, k) == CHOOSE s \in S : Cardinality({x \in S : x <= s}) = k

WordsAt(text, starts) ==
  [k \in 1..Cardinality(starts) |->
     SubSeq(text, NthOf(starts, k), WordEnd(text, NthOf(starts, k)))] \o <<>>

\* the words of text.split(/\s+/) that are not empty, in order
SplitOnSpaces(text) ==
  WordsAt(text, {i \in 1..Len(text) :
                   ~IsSpace(text[i]) /\ (i = 1 \/ IsSpace(text[i - 1]))})

\* words.join(' ')
RECURSIVE JoinWithSpace(_)
JoinWithSpace(words) ==
  IF words = <<>> THEN <<>>
  ELSE IF Len(words) = 1 THEN words[1]
  ELSE words[1] \o <<32>> \o JoinWithSpace(Tail(words))

\* step 4 for one word: very short words, words with a digit and the rate
\* and quantity keywords are not verified
VerifyWord(word, rateKeywords, itemNames) ==
  IF /\ Len(word) > 2
     /\ ~\E i \in 1..Len(word) : IsDigit(word[i])
     /\ ~\E k \in 1..Len(rateKeywords) : toLowerCase(rateKeywords[k]) = toLowerCase(word)
     /\ ~\E k \in 1..Len(QUANTITY_KEYWORDS) : toLowerCase(QUANTITY_KEYWORDS[k]) = toLowerCase(word)
  THEN performSemanticVerification(word, itemNames)
  ELSE word

VerifyWords(words, rateKeywords, itemNames) ==
  [k \in 1..Len(words) |-> VerifyWord(words[k], rateKeywords, itemNames)] \o <<>>

\* preprocessTranscript reads the module arrays RATE_KEYWORDS and
\* TAMIL_ITEM_NAMES as they are when it is called.  The empty strings that
\* split puts before a leading and after a trailing run of white space only
\* add spaces that step 5 trims.
preprocessTranscript(text, rateKeywords, itemNames) ==
  trim(CollapseSpaces(JoinWithSpace(VerifyWords(
    SplitOnSpaces(ReplaceWholeWords(
      ReplaceWholeWords(ReplaceAsrPunctuation(text), codeMixingMap, 1),
      TAMIL_ASR_CORRECTIONS, 1)),
    rateKeywords, itemNames))))

\* the units of the fraction patterns, lines 559-561: (கிலோ|லிட்டர்|kg|l)
FRACTION_UNITS ==
  << <<2965, 3007, 2994, 3019>>,                     \* கிலோ
     <<2994, 3007, 2975, 3021, 2975, 2992, 3021>>,   \* லிட்டர்
     <<107, 103>>,                                   \* kg
     <<108>> >>                                      \* l
\* fractionPatterns, lines 558-562: the word of each pattern and its value
fractionPatterns ==
  << <<<<2949, 2992, 3016>>, <<1, 2>>>>,                                 \* அரை 0.5
     <<<<2965, 3006, 2994, 3021>>, <<1, 4>>>>,                           \* கால் 0.25
     <<<<2990, 3009, 2965, 3021, 2965, 3006, 2994, 3021>>, <<3, 4>>>> >> \* முக்கால் 0.75

(***************************************************************************)
(* parseSegment                                                            *)
(***************************************************************************)
\* buildPattern: a sorted copy of the keywords, longest first, joined by |
\* (the escaping makes every keyword match itself literally).  An
\* alternation takes the first alternative, in this order, with which the
\* rest of the pattern matches.
buildPattern(keywords) == SortByLengthDesc(keywords)

\* the match of  number \s* keyword  for the number that ends at numEnd and
\* the keyword of index x that starts at k
NumberKeywordMatch(numEnd, k, keys, x) ==
  IF x = 0 THEN <<>> ELSE <<numEnd, k, k + Len(keys[x]) - 1>>
NumberKeywordFrom(t, keys, numEnd, k) ==
  NumberKeywordMatch(numEnd, k, keys,
                     FirstOrZero({x \in 1..Len(keys) : StartsAtCI(t, k, keys[x])}))

\* (\d+(?:\.\d+)?)\s*(k1|k2|...) with the i flag at start index i:
\* <<last index of the number, first and last index of the keyword>>, or
\* <<>> when it does not match there.  No keyword starts with a digit, a dot
\* or white space, so a shorter number or a shorter run of white space never
\* gives a match that the greedy one does not give.
NumberKeywordAt(t, i, keys) ==
  IF ~IsDigit(t[i]) THEN <<>>
  ELSE NumberKeywordFrom(t, keys, NumberEnd(t, i), SpacesEnd(t, NumberEnd(t, i) + 1) + 1)

\* the index where the number starts after the keyword that starts at i
NumberAfter(t, i, key) == SpacesEnd(t, i + Len(key)) + 1

KeywordNumberMatch(t, i, keys, x) ==
  IF x = 0 THEN <<>>
  ELSE <<i + Len(keys[x]) - 1, NumberAfter(t, i, keys[x]),
         NumberEnd(t, NumberAfter(t, i, keys[x]))>>

\* (k1|k2|...)\s*(\d+(?:\.\d+)?) with the i flag at start index i:
\* <<last index of the keyword, first and last index of the number>>, or
\* <<>>
KeywordNumberAt(t, i, keys) ==
  KeywordNumberMatch(t, i, keys,
    FirstOrZero({x \in 1..Len(keys) :
                   /\ StartsAtCI(t, i, keys[x])
                   /\ NumberAfter(t, i, keys[x]) <= Len(t)
                   /\ IsDigit(t[NumberAfter(t, i, keys[x])])}))

\* the first index where a pattern matches (text.match), 0 when nowhere
FirstNumberKeyword(t, keys) ==
  FirstOrZero({i \in 1..Len(t) : NumberKeywordAt(t, i, keys) # <<>>})
FirstKeywordNumber(t, keys) ==
  FirstOrZero({i \in 1..Len(t) : KeywordNumberAt(t, i, keys) # <<>>})

\* text.replace(match[0], ' ').trim()
RemoveMatch(t, matched) == trim(ReplaceFirst(t, matched, <<32>>))

\* parseFloat(numStr) without its default
QuantityNumberAsParsed(parsed) == parsed

\* parseFloat(numStr) || 1
QuantityNumber(parsed) == IF parsed[1] = 0 THEN <<1, 1>> ELSE parsed

\* lines 546-550
QuantityFound(text, matched, numStr, unitStr) ==
  [text |-> RemoveMatch(text, matched),
   quantity |-> trim(NumberToString(QuantityNumber(parseFloat(numStr))) \o <<32>> \o unitStr),
   quantityNumber |-> QuantityNumber(parseFloat(numStr))]

NoQuantity(text) == [text |-> text, quantity |-> NULL, quantityNumber |-> <<1, 1>>]

\* the first quantity pattern matched at a, m being its parts; the match
\* takes the s after the unit when there is one
NumberThenUnit(text, a, m) ==
  QuantityFound(text,
    SubSeq(text, a, IF m[3] + 1 <= Len(text) /\ LowerChar(text[m[3] + 1]) = 115
                    THEN m[3] + 1 ELSE m[3]),
    SubSeq(text, a, m[1]), SubSeq(text, m[2], m[3]))

\* the second quantity pattern matched at b, m being its parts
UnitThenNumber(text, b, m) ==
  QuantityFound(text, SubSeq(text, b, m[3]), SubSeq(text, m[2], m[3]), SubSeq(text, b, m[1]))

QuantityAt(text, keys, a, b) ==
  IF a > 0 THEN NumberThenUnit(text, a, NumberKeywordAt(text, a, keys))
  ELSE IF b > 0 THEN UnitThenNumber(text, b, KeywordNumberAt(text, b, keys))
  ELSE NoQuantity(text)

QuantityWith(text, keys) ==
  QuantityAt(text, keys, FirstNumberKeyword(text, keys), FirstKeywordNumber(text, keys))

\* step 2, lines 530-553: the first of the two quantity patterns that
\* matches gives the quantity
ExtractQuantity(text) == QuantityWith(text, buildPattern(QUANTITY_KEYWORDS))

\* the last index of the unit of index x that starts at k
FractionUnitEnd(k, x) == IF x = 0 THEN 0 ELSE k + Len(FRACTION_UNITS[x]) - 1

\* /word\s*(கிலோ|லிட்டர்|kg|l)/i : the last index of the match at i, or 0
FractionEnd(t, i, word) ==
  IF ~StartsAtCI(t, i, word) THEN 0
  ELSE FractionUnitEnd(SpacesEnd(t, i + Len(word)) + 1,
         FirstOrZero({x \in 1..Len(FRACTION_UNITS) :
                        StartsAtCI(t, SpacesEnd(t, i + Len(word)) + 1, FRACTION_UNITS[x])}))

\* lines 566-570
FractionFound(text, matched, value) ==
  [text |-> RemoveMatch(text, matched), quantity |-> trim(matched), quantityNumber |-> value]

\* lines 555-573: the first of the fraction patterns that matches
RECURSIVE ExtractFraction(_, _)
FractionAt(text, n, i) ==
  IF i = 0 THEN ExtractFraction(text, n + 1)
  ELSE FractionFound(text, SubSeq(text, i, FractionEnd(text, i, fractionPatterns[n][1])),
                     fractionPatterns[n][2])
ExtractFraction(text, n) ==
  IF n > Len(fractionPatterns) THEN NoQuantity(text)
  ELSE FractionAt(text, n,
         FirstOrZero({i \in 1..Len(text) : FractionEnd(text, i, fractionPatterns[n][1]) > 0}))

\* if (!quantity) of line 556
QuantityOrFraction(q) == IF q.quantity = NULL THEN ExtractFraction(q.text, 1) ELSE q

\* lines 590-594
PriceFound(text, matched, numberStr) ==
  [text |-> RemoveMatch(text, matched), totalPrice |-> parseFloat(numberStr)]

NumberThenRate(text, a, m) == PriceFound(text, SubSeq(text, a, m[3]), SubSeq(text, a, m[1]))
RateThenNumber(text, b, m) == PriceFound(text, SubSeq(text, b, m[3]), SubSeq(text, m[2], m[3]))

PriceAt(text, keys, a, b) ==
  IF a > 0 THEN NumberThenRate(text, a, NumberKeywordAt(text, a, keys))
  ELSE IF b > 0 THEN RateThenNumber(text, b, KeywordNumberAt(text, b, keys))
  ELSE [text |-> text, totalPrice |-> NULL]

PriceWith(text, keys) ==
  PriceAt(text, keys, FirstNumberKeyword(text, keys), FirstKeywordNumber(text, keys))

\* step 3, lines 575-597: the first of the two price patterns that matches
\* gives the total price
ExtractPrice(text, rateKeywords) == PriceWith(text, buildPattern(rateKeywords))

\* step 4, lines 599-608
RateOf(totalPrice, quantityNumber) ==
  IF totalPrice = NULL THEN NULL
  ELSE IF quantityNumber[1] > 0 THEN Divide(totalPrice, quantityNumber)
  ELSE totalPrice

\* /\b(\d+(?:\.\d+)?)\b/ at start index i: the last index of the match, or 0.
\* When the number with its decimals does not end at a word boundary the
\* digits before the dot do.
StandaloneEnd(t, i) ==
  IF ~(IsDigit(t[i]) /\ WordBoundary(t, i)) THEN 0
  ELSE IF WordBoundary(t, NumberEnd(t, i) + 1) THEN NumberEnd(t, i)
  ELSE IF NumberEnd(t, i) > DigitsEnd(t, i) THEN DigitsEnd(t, i)
  ELSE 0

\* lines 614-616
StandaloneFound(text, matched, quantityNumber) ==
  [text |-> RemoveMatch(text, matched),
   rate |-> Divide(parseFloat(matched), quantityNumber)]

FallbackAt(text, quantity, quantityNumber, rate, i) ==
  IF (rate = NULL \/ rate[1] = 0) /\ i > 0 /\ quantity # NULL
  THEN StandaloneFound(text, SubSeq(text, i, StandaloneEnd(text, i)), quantityNumber)
  ELSE [text |-> text, rate |-> rate]

\* step 5, lines 610-618: without a rate (null, or 0) a number that stands
\* alone is taken as the total price when there is a quantity
FallbackRate(text, quantity, quantityNumber, rate) ==
  FallbackAt(text, quantity, quantityNumber, rate,
             FirstOrZero({i \in 1..Len(text) : StandaloneEnd(text, i) > 0}))

\* text.replace(/[^\w\s஀-௿\-]/g, ' ')
ReplaceSpecialChars(t) ==
  [i \in 1..Len(t) |->
     IF IsWordChar(t[i]) \/ IsSpace(t[i]) \/ (t[i] >= 2944 /\ t[i] <= 3071) \/ t[i] = 45
     THEN t[i] ELSE 32]

\* step 7, lines 625-629
Formalized(name) == IF containsTamil(name) THEN formalizeTamilForPDF(name) ELSE name

\* lines 631-634
Capitalized(name) ==
  IF name = THREW THEN THREW
  ELSE IF Len(name) > 0 /\ ~containsTamil(<<name[1]>>)
  THEN <<UpperChar(name[1])>> \o SubSeq(name, 2, Len(name))
  ELSE name

\* steps 6 and 7, lines 620-634
ExtractName(text) ==
  Capitalized(Formalized(CollapseSpaces(trim(ReplaceSpecialChars(text)))))

\* return { name: name || null, quantity, rate }.  The result is the
\* ParsedVoiceData record; threw tells that the call ended in an uncaught
\* exception and returned nothing.
Parsed(name, quantity, rate) ==
  IF name = THREW
  THEN [threw |-> TRUE, name |-> NULL, quantity |-> NULL, rate |-> NULL]
  ELSE [threw |-> FALSE, name |-> IF name = <<>> THEN NULL ELSE name,
        quantity |-> quantity, rate |-> rate]

ParseAfterFallback(q, f) == Parsed(ExtractName(f.text), q.quantity, f.rate)

ParseAfterPrice(q, p) ==
  ParseAfterFallback(q, FallbackRate(p.text, q.quantity, q.quantityNumber,
                                     RateOf(p.totalPrice, q.quantityNumber)))

ParseAfterQuantity(q, rateKeywords) == ParseAfterPrice(q, ExtractPrice(q.text, rateKeywords))

\* lines 512-515
CleanSegment(segment) ==
  trim(CollapseSpaces(SelectSeq(normalizeNumbers(trim(toLowerCase(segment))),
                                LAMBDA c : c # 44)))

\* parseSegment reads the module array RATE_KEYWORDS as it is when it is
\* called
parseSegment(segment, rateKeywords) ==
  ParseAfterQuantity(QuantityOrFraction(ExtractQuantity(CleanSegment(segment))), rateKeywords)

(***************************************************************************)
(* parseContinuousInput                                                    *)
(***************************************************************************)
FirstMatchEnd(a, b) == IF a # <<>> THEN a[3] ELSE IF b # <<>> THEN b[3] ELSE 0

\* splitRegex, lines 659-662, at start index i: the last index of the match
\* of  number \s* keyword | keyword \s* number , or 0
PriceBoundaryEnd(t, i, keys) ==
  FirstMatchEnd(NumberKeywordAt(t, i, keys), KeywordNumberAt(t, i, keys))

MatchEnds(ends, starts) == [k \in 1..Len(starts) |-> ends[starts[k]]] \o <<>>
BoundariesOf(ends) == MatchEnds(ends, MatchStarts(ends, 1))

\* the values of splitRegex.lastIndex in the loop of lines 669-680, in order
PriceBoundaries(t, keys) ==
  BoundariesOf([i \in 1..Len(t) |-> PriceBoundaryEnd(t, i, keys)] \o <<>>)

\* normalizedTranscript.slice(lastIndex, endIndex) for every match
PrimarySegments(t, boundaries) ==
  [k \in 1..Len(boundaries) |->
     SubSeq(t, IF k = 1 THEN 1 ELSE boundaries[k - 1] + 1, boundaries[k])] \o <<>>

\* normalizedTranscript.slice(lastIndex) after the loop
Remaining(t, boundaries) ==
  IF boundaries = <<>> THEN <<>>
  ELSE SubSeq(t, boundaries[Len(boundaries)] + 1, Len(t))

ItemNameEndOf(i, itemNames, x) == IF x = 0 THEN 0 ELSE i + Len(itemNames[x]) - 1

\* new RegExp(`(${itemNamePattern})`, 'gi') at start index i: the last index
\* of the match, or 0; the item names are tried in the order of the array
ItemNameEnd(t, i, itemNames) ==
  ItemNameEndOf(i, itemNames,
                FirstOrZero({x \in 1..Len(itemNames) : StartsAtCI(t, i, itemNames[x])}))

PartsAt(t, ends, starts) ==
  Concat([k \in 1..(Len(starts) + 1) |->
            IF k > Len(starts) THEN <<Before(t, ends, starts, k)>>
            ELSE <<Before(t, ends, starts, k), SubSeq(t, starts[k], ends[starts[k]])>>])

PartsOf(t, ends) == PartsAt(t, ends, MatchStarts(ends, 1))

\* text.split(itemSplitRegex).filter(p => p.trim()): the pieces between the
\* matches and, because of the capturing group, the matches themselves
SplitByItemNames(t, itemNames) ==
  SelectSeq(PartsOf(t, [i \in 1..Len(t) |-> ItemNameEnd(t, i, itemNames)] \o <<>>),
            LAMBDA p : trim(p) # <<>>)

\* TAMIL_ITEM_NAMES.some(name => name.toLowerCase() === part.toLowerCase())
isItemName(part, itemNames) ==
  \E x \in 1..Len(itemNames) :
    Len(itemNames[x]) = Len(part) /\ StartsAtCI(part, 1, itemNames[x])

\* if (currentSegment.trim()) the segment goes to parseSegment
Closed(segments, currentSegment) ==
  IF trim(currentSegment) # <<>> THEN Append(segments, currentSegment) ELSE segments

\* lines 694-723: the segments that the loop of the secondary path hands to
\* parseSegment, and after them the segment that is left at the end of the
\* loop
RECURSIVE SecondarySegments(_, _, _, _, _)
SecondaryStep(parts, i, currentSegment, segments, itemNames, part) ==
  IF isItemName(part, itemNames)
  THEN SecondarySegments(parts, i + 1, part, Closed(segments, currentSegment), itemNames)
  ELSE SecondarySegments(parts, i + 1, currentSegment \o <<32>> \o part, segments, itemNames)
SecondarySegments(parts, i, currentSegment, segments, itemNames) ==
  IF i > Len(parts) THEN Closed(segments, currentSegment)
  ELSE SecondaryStep(parts, i, currentSegment, segments, itemNames, trim(parts[i]))

\* lines 737-760: the same for the text after the last price boundary; here
\* an item name starts a new segment only after text that is not blank
RECURSIVE RemainingSegments(_, _, _, _, _)
\* the step without lines 744-749: an item name never starts a new segment
RemainingStepUnsplit(parts, i, currentSegment, segments, itemNames, part) ==
  RemainingSegments(parts, i + 1, currentSegment \o <<32>> \o part, segments, itemNames)
RemainingStep(parts, i, currentSegment, segments, itemNames, part) ==
  IF isItemName(part, itemNames) /\ trim(currentSegment) # <<>>
  THEN RemainingSegments(parts, i + 1, part, Append(segments, currentSegment), itemNames)
  ELSE RemainingSegments(parts, i + 1, currentSegment \o <<32>> \o part, segments, itemNames)
RemainingSegments(parts, i, currentSegment, segments, itemNames) ==
  IF i > Len(parts) THEN Closed(segments, currentSegment)
  ELSE RemainingStep(parts, i, currentSegment, segments, itemNames, trim(parts[i]))

\* lines 675-677 without their test: every result is pushed
CompleteOrNot(parsed) == TRUE

\* if (parsed.name || parsed.quantity) results.push(parsed)
Complete(parsed) == parsed.name # NULL \/ parsed.quantity # NULL

\* the results of parseSegment without the ones equal to an earlier one
ParseAllDistinct(segments, rateKeywords) ==
  LET parsed == [k \in 1..Len(segments) |-> parseSegment(segments[k], rateKeywords)] \o <<>>
      kept == {k \in 1..Len(parsed) : \A j \in 1..(k - 1) : parsed[j] # parsed[k]}
  IN [i \in 1..Cardinality(kept) |-> parsed[NthOf(kept, i)]] \o <<>>

ParseAll(segments, rateKeywords) ==
  [k \in 1..Len(segments) |-> parseSegment(segments[k], rateKeywords)] \o <<>>

AnyThrew(parsed) == \E k \in 1..Len(parsed) : parsed[k].threw

\* what the loops after the price boundaries push: the complete results
\* and, for the text after the last price boundary, the last one as it is
\* (lines 756-759)
Pushed(parsed, lastAsItIs) ==
  IF parsed = <<>> THEN <<>>
  ELSE SelectSeq(SubSeq(parsed, 1, Len(parsed) - 1), Complete)
         \o (IF lastAsItIs \/ Complete(parsed[Len(parsed)])
             THEN <<parsed[Len(parsed)]>> ELSE <<>>)

\* The call as a whole: what the caller gets (threw, and results when it did
\* not throw), the module arrays RATE_KEYWORDS and TAMIL_ITEM_NAMES as the
\* call leaves them, and the locals normalizedTranscript, foundRateMatches
\* (as the number of matches), results.length at the end of the loop of
\* lines 669-680, and remaining.
Outcome(threw, pushed, rateKeywords, itemNames, normalizedTranscript, boundaries, completed, remaining) ==
  [threw |-> threw,
   results |-> IF threw THEN <<>>
               ELSE [k \in 1..Len(pushed) |->
                       [name |-> pushed[k].name, quantity |-> pushed[k].quantity,
                        rate |-> pushed[k].rate]] \o <<>>,
   RATE_KEYWORDS |-> rateKeywords,
   TAMIL_ITEM_NAMES |-> itemNames,
   normalizedTranscript |-> normalizedTranscript,
   boundaries |-> Len(boundaries),
   completed |-> completed,
   remaining |-> remaining]

\* lines 717-723 and 755-761: the end of the call after the item names were
\* sorted in place and the segments between them parsed
AfterItemNames(t, keys, sortedNames, boundaries, completed, remaining, parsed) ==
  Outcome(AnyThrew(parsed), completed \o Pushed(parsed, boundaries # <<>>),
          keys, sortedNames, t, boundaries, Len(completed), remaining)

\* lines 683-715, without a price boundary: TAMIL_ITEM_NAMES is sorted in
\* place and the whole transcript is split at the item names
SecondaryPath(t, keys, sortedNames, boundaries, completed, remaining) ==
  AfterItemNames(t, keys, sortedNames, boundaries, completed, remaining,
    ParseAll(SecondarySegments(SplitByItemNames(t, sortedNames), 1, <<>>, <<>>, sortedNames),
             keys))

\* lines 726-753, with text after the last price boundary: TAMIL_ITEM_NAMES
\* is sorted in place and that text is split at the item names
RemainingPath(t, keys, sortedNames, boundaries, completed, remaining) ==
  AfterItemNames(t, keys, sortedNames, boundaries, completed, remaining,
    ParseAll(RemainingSegments(SplitByItemNames(remaining, sortedNames), 1, <<>>, <<>>,
                               sortedNames),
             keys))

\* after the loop of lines 669-680, `parsed` being the results of
\* parseSegment for the segments that end at the price boundaries
AfterBoundaries(t, keys, itemNames, boundaries, parsed, remaining) ==
  IF AnyThrew(parsed)
  THEN Outcome(TRUE, <<>>, keys, itemNames, t, boundaries, 0, remaining)
  ELSE IF boundaries = <<>>
  THEN SecondaryPath(t, keys, SortByLengthDesc(itemNames), boundaries,
                     SelectSeq(parsed, Complete), remaining)
  ELSE IF trim(remaining) # <<>>
  THEN RemainingPath(t, keys, SortByLengthDesc(itemNames), boundaries,
                     SelectSeq(parsed, Complete), remaining)
  ELSE Outcome(FALSE, SelectSeq(parsed, Complete), keys, itemNames, t, boundaries,
               Len(SelectSeq(parsed, Complete)), remaining)

SplitAtBoundaries(t, keys, itemNames, boundaries) ==
  AfterBoundaries(t, keys, itemNames, boundaries,
                  ParseAll(PrimarySegments(t, boundaries), keys),
                  Remaining(t, boundaries))

\* lines 654-662: RATE_KEYWORDS.sort(...) sorts the module array in place
SplitNormalized(t, keys, itemNames) ==
  SplitAtBoundaries(t, keys, itemNames, PriceBoundaries(t, keys))

\* preprocessTranscript reads the module arrays before line 655 sorts
\* RATE_KEYWORDS
parseContinuousInput(fullTranscript, rateKeywords, itemNames) ==
  SplitNormalized(normalizeNumbers(preprocessTranscript(fullTranscript, rateKeywords, itemNames)),
                  SortByLengthDesc(rateKeywords), itemNames)

(***************************************************************************)
(* The texts that the callers pass                                         *)
(***************************************************************************)
\* "tomato"
Word_tomato == <<116, 111, 109, 97, 116, 111>>
\* "potato"
Word_potato == <<112, 111, 116, 97, 116, 111>>
\* "sugar"
Word_sugar == <<115, 117, 103, 97, 114>>
\* "kg"
Word_kg == <<107, 103>>
\* "rupees"
Word_rupees == <<114, 117, 112, 101, 101, 115>>
\* "கோழி"
Word_kozhi == <<2965, 3019, 2996, 3007>>
\* "துவரம்"
Word_thuvaram == <<2980, 3009, 2997, 2992, 2990, 3021>>
\* "தக்காளி"
Word_thakkali == <<2980, 2965, 3021, 2965, 3006, 2995, 3007>>
\* "constructor"
Word_constructor == <<99, 111, 110, 115, 116, 114, 117, 99, 116, 111, 114>>
\* "__proto__"
Word_proto == <<95, 95, 112, 114, 111, 116, 111, 95, 95>>
\* "onionz 2 kg"
Text_onionz == <<111, 110, 105, 111, 110, 122, 32, 50, 32, 107, 103>>
\* "?"
Text_question == <<63>>
\* "tomato 2 kg 50 rupees ?"
Text_live_question == <<116, 111, 109, 97, 116, 111, 32, 50, 32, 107, 103, 32, 53, 48, 32, 114, 117, 112, 101, 101, 115, 32, 63>>
\* "அரிசி constructor"
Text_arisi_constructor == <<2949, 2992, 3007, 2970, 3007, 32, 99, 111, 110, 115, 116, 114, 117, 99, 116, 111, 114>>
\* ""
Text_empty == <<>>
\* "50 rupees tomato 2 kg 50 rupees"
Text_price_first == <<53, 48, 32, 114, 117, 112, 101, 101, 115, 32, 116, 111, 109, 97, 116, 111, 32, 50, 32, 107, 103, 32, 53, 48, 32, 114, 117, 112, 101, 101, 115>>
\* "2 kg tomato"
Text_quantity_first == <<50, 32, 107, 103, 32, 116, 111, 109, 97, 116, 111>>
\* "onion"
Word_onion == <<111, 110, 105, 111, 110>>
\* "fifty"
Word_fifty == <<102, 105, 102, 116, 121>>
\* "two"
Word_two == <<116, 119, 111>>
\* "ஐம்பது"
Word_aimbadu == <<2960, 2990, 3021, 2986, 2980, 3009>>
\* "fiftyfold"
Word_fiftyfold == <<102, 105, 102, 116, 121, 102, 111, 108, 100>>
\* "tomato 2 kg rupees 50"
Text_price_after_keyword == <<116, 111, 109, 97, 116, 111, 32, 50, 32, 107, 103, 32, 114, 117, 112, 101, 101, 115, 32, 53, 48>>
\* "tomato 2 kg 50 rupees"
Text_priced_tomato == <<116, 111, 109, 97, 116, 111, 32, 50, 32, 107, 103, 32, 53, 48, 32, 114, 117, 112, 101, 101, 115>>
\* "5"
Word_five == <<53>>
\* "tomato half kg 50 rupees"
Text_half_kilo == <<116, 111, 109, 97, 116, 111, 32, 104, 97, 108, 102, 32, 107, 103, 32, 53, 48, 32, 114, 117, 112, 101, 101, 115>>
\* "delete"
Word_delete == <<100, 101, 108, 101, 116, 101>>
\* "last"
Word_last == <<108, 97, 115, 116>>
\* "item"
Word_item == <<105, 116, 101, 109>>
\* "remove"
Word_remove == <<114, 101, 109, 111, 118, 101>>
\* "number"
Word_number == <<110, 117, 109, 98, 101, 114>>
\* "no"
Word_no == <<110, 111>>
\* "நீக்கு"
Word_neekku == <<2984, 3008, 2965, 3021, 2965, 3009>>
\* "அழி"
Word_azhi == <<2949, 2996, 3007>>
\* "clear list"
Text_clear_list == <<99, 108, 101, 97, 114, 32, 108, 105, 115, 116>>
\* "clear all"
Text_clear_all == <<99, 108, 101, 97, 114, 32, 97, 108, 108>>
\* "reset list"
Text_reset_list == <<114, 101, 115, 101, 116, 32, 108, 105, 115, 116>>
\* "முழுவதும்"
Text_muzhuvathum == <<2990, 3009, 2996, 3009, 2997, 2980, 3009, 2990, 3021>>
\* "delete last"
Text_delete_last == <<100, 101, 108, 101, 116, 101, 32, 108, 97, 115, 116>>
\* "remove last"
Text_remove_last == <<114, 101, 109, 111, 118, 101, 32, 108, 97, 115, 116>>
\* "undo last"
Text_undo_last == <<117, 110, 100, 111, 32, 108, 97, 115, 116>>
\* "கடைசி"
Text_kadaisi == <<2965, 2975, 3016, 2970, 3007>>
\* "முந்தைய"
Text_mundhaiya == <<2990, 3009, 2984, 3021, 2980, 3016, 2991>>
\* "Unknown Item"
Text_Unknown_Item == <<85, 110, 107, 110, 111, 119, 110, 32, 73, 116, 101, 109>>
\* "Tomato"
Text_Tomato == <<84, 111, 109, 97, 116, 111>>
\* "Milk"
Text_Milk == <<77, 105, 108, 107>>
\* "Bread"
Text_Bread == <<66, 114, 101, 97, 100>>
\* "Rice"
Text_Rice == <<82, 105, 99, 101>>
\* "2 kg"
Text_2_kg == <<50, 32, 107, 103>>
\* "3 kg"
Text_3_kg == <<51, 32, 107, 103>>
\* "1 ltr"
Text_1_ltr == <<49, 32, 108, 116, 114>>
\* "1"
Text_1 == <<49>>
\* "10"
Text_10 == <<49, 48>>
\* "tomato 2 kg 50 rupees tomato 2 kg 50 rupees"
Text_same_item_twice == <<116, 111, 109, 97, 116, 111, 32, 50, 32, 107, 103, 32, 53, 48, 32, 114, 117, 112, 101, 101, 115, 32, 116, 111, 109, 97, 116, 111, 32, 50, 32, 107, 103, 32, 53, 48, 32, 114, 117, 112, 101, 101, 115>>
\* "tomato 2 kg 50 rupees potato 1 kg delete last onion"
Text_items_then_delete == <<116, 111, 109, 97, 116, 111, 32, 50, 32, 107, 103, 32, 53, 48, 32, 114, 117, 112, 101, 101, 115, 32, 112, 111, 116, 97, 116, 111, 32, 49, 32, 107, 103, 32, 100, 101, 108, 101, 116, 101, 32, 108, 97, 115, 116, 32, 111, 110, 105, 111, 110>>

(***************************************************************************)
(* The functions of App.tsx                                                *)
(***************************************************************************)
\* parseFloat of a text that begins, after white space, with digits or with
\* Infinity; NaN for a text that begins otherwise.  The texts of the model
\* hold no sign, no exponent and no number that begins with a dot.
ParseFloatOfTrimmed(t) ==
  IF StartsAt(t, 1, <<73, 110, 102, 105, 110, 105, 116, 121>>) THEN Infinity
  ELSE IF t # <<>> /\ IsDigit(t[1]) THEN parseFloat(SubSeq(t, 1, NumberEnd(t, 1)))
  ELSE NaN
parseFloatOfText(text) == ParseFloatOfTrimmed(trim(text))

\* Number.isFinite
isFinite(x) == x[2] > 0

\* lines 10-15; null is NULL
NumericOr1(numeric) == IF isFinite(numeric) THEN numeric ELSE <<1, 1>>
parseQuantityNumber(quantity) ==
  IF quantity = NULL \/ quantity = <<>> THEN <<1, 1>>
  ELSE NumericOr1(parseFloatOfText(quantity))

\* the product of two numbers
Multiply(a, b) == Frac(a[1] * b[1], a[2] * b[2])

\* t.includes(sub)
Includes(t, sub) == IndexOf(t, sub, 1) > 0

\* line 35: the first index of the digits of a match of
\* (?:delete|remove|item|number|no\.?|...)\s*(?:item\s*)?(\d{1,3}) whose
\* keyword ends before index p, or 0: the white space is skipped, then
\* "item" and the white space after it when it is there
IndexDigitsAfterItem(t, p) ==
  IF p <= Len(t) /\ IsDigit(t[p]) THEN p ELSE 0
IndexDigitsAfterSpaces(t, p) ==
  IF StartsAt(t, p, Word_item)
  THEN IndexDigitsAfterItem(t, SpacesEnd(t, p + Len(Word_item)) + 1)
  ELSE IndexDigitsAfterItem(t, p)
IndexDigitsAfter(t, p) == IndexDigitsAfterSpaces(t, SpacesEnd(t, p) + 1)

\* the keywords of the pattern; "no" may be followed by a dot
IndexKeywords == <<Word_delete, Word_remove, Word_item, Word_number, Word_no, Word_neekku, Word_azhi>>

\* the first index of the digits of a match that starts at index i, or 0
IndexDigitsOfKeyword(t, i, key) ==
  IF ~StartsAt(t, i, key) THEN 0
  ELSE IF key = Word_no /\ i + 2 <= Len(t) /\ t[i + 2] = 46
          /\ IndexDigitsAfter(t, i + 3) > 0
  THEN IndexDigitsAfter(t, i + 3)
  ELSE IndexDigitsAfter(t, i + Len(key))
IndexDigitsAt(t, i) ==
  FirstOrZero({k \in 1..Len(IndexKeywords) : IndexDigitsOfKeyword(t, i, IndexKeywords[k]) > 0})

\* match[1]: at most three digits
IndexCaptured(t, d) == SubSeq(t, d, Min2(DigitsEnd(t, d), d + 2))
IndexOfMatch(t, i) ==
  parseInt(IndexCaptured(t, IndexDigitsOfKeyword(t, i, IndexKeywords[IndexDigitsAt(t, i)])))

\* the null that parseDeleteCommand returns at line 44
NoCommand == [type |-> "null", index |-> 0]

\* lines 35-42: the first match of the pattern gives the index when it is
\* greater than 0
DeleteIndexAt(t, i) ==
  IF i > 0 /\ IndexOfMatch(t, i) > 0
  THEN [type |-> "delete-index", index |-> IndexOfMatch(t, i)]
  ELSE NoCommand
DeleteIndexCommand(t) ==
  DeleteIndexAt(t, FirstOrZero({i \in 1..Len(t) : IndexDigitsAt(t, i) > 0}))

\* lines 17-45
ClearPhrases == {Text_clear_list, Text_clear_all, Text_reset_list, Text_muzhuvathum, Word_azhi}
DeleteLastPhrases == {Text_delete_last, Text_remove_last, Text_undo_last, Text_kadaisi, Text_mundhaiya}
CommandOf(t) ==
  IF \E phrase \in ClearPhrases : Includes(t, phrase) THEN [type |-> "clear-all", index |-> 0]
  ELSE IF \E phrase \in DeleteLastPhrases : Includes(t, phrase)
  THEN [type |-> "delete-last", index |-> 0]
  ELSE DeleteIndexCommand(t)
parseDeleteCommand(text) == CommandOf(toLowerCase(text) \o <<>>)

\* a BillItem; isLive is FALSE also for an item made without the field
BillItem(id, name, quantity, rate, total, isLive) ==
  [id |-> id, name |-> name, quantity |-> quantity, rate |-> rate, total |-> total,
   isLive |-> isLive]

\* the id `live-${idx}` of a live item, and the n-th id that uuidv4 gives
LiveId(idx) == <<0, idx>>
Uuid(n) == <<1, n>>

\* p.rate || 0, p.name || '', p.quantity || ''
OrZero(rate) == IF rate = NULL \/ rate[1] = 0 THEN <<0, 1>> ELSE rate
OrEmpty(text) == IF text = NULL THEN <<>> ELSE text

\* lines 154-156: the rate of the bill item and the key of the item
RateOfParsed(p, includePrice) == IF includePrice THEN OrZero(p.rate) ELSE <<0, 1>>
ItemKey(p, rate) ==
  OrEmpty(p.name) \o <<45>> \o OrEmpty(p.quantity) \o <<45>> \o NumberToString(rate)

\* lines 158-165: the bill item of the parsed item of index idx (from 0)
LiveItemWith(p, idx, rate) ==
  BillItem(LiveId(idx), OrEmpty(p.name), OrEmpty(p.quantity), rate,
           Multiply(rate, parseQuantityNumber(p.quantity)), TRUE)
LiveItemOf(p, idx, includePrice) == LiveItemWith(p, idx, RateOfParsed(p, includePrice))

\* line 169
IsCompleteItem(p) == OrEmpty(p.name) # <<>> /\ OrEmpty(p.quantity) # <<>>

\* lines 152-179: the loop over the parsed items from index k on, with the
\* keys of autoCommittedRef and the two lists it fills
RECURSIVE SortParsed(_, _, _, _, _, _)
SortParsed(parsed, k, includePrice, keys, completed, incomplete) ==
  IF k > Len(parsed)
  THEN [keys |-> keys, completedItems |-> completed, incompleteItems |-> incomplete]
  ELSE IF ~IsCompleteItem(parsed[k])
  THEN SortParsed(parsed, k + 1, includePrice, keys, completed,
                  Append(incomplete, LiveItemOf(parsed[k], k - 1, includePrice)))
  ELSE IF ItemKey(parsed[k], RateOfParsed(parsed[k], includePrice)) \in keys
  THEN SortParsed(parsed, k + 1, includePrice, keys, completed, incomplete)
  ELSE SortParsed(parsed, k + 1, includePrice,
                  keys \cup {ItemKey(parsed[k], RateOfParsed(parsed[k], includePrice))},
                  Append(completed, LiveItemOf(parsed[k], k - 1, includePrice)), incomplete)

\* lines 184-189 and 205-210: the items as they are committed, with the ids
\* that uuidv4 gives after the first `given`
Committed(items, given) ==
  [k \in 1..Len(items) |->
     BillItem(Uuid(given + k),
              IF items[k].name = <<>> THEN Text_Unknown_Item ELSE items[k].name,
              items[k].quantity, items[k].rate, items[k].total, FALSE)] \o <<>>

\* prev.filter((_, idx) => idx !== index - 1) and prev.slice(0, -1)
WithoutIndex(items, index) ==
  IF index > Len(items) THEN items
  ELSE SubSeq(items, 1, index - 1) \o SubSeq(items, index + 1, Len(items))
WithoutLast(items) == SubSeq(items, 1, Len(items) - 1)

\* lines 257-263
SampleItems(given) ==
  << BillItem(Uuid(given + 1), Text_Tomato, Text_2_kg, <<40, 1>>, <<80, 1>>, FALSE),
     BillItem(Uuid(given + 2), Text_Milk, Text_1_ltr, <<55, 1>>, <<55, 1>>, FALSE),
     BillItem(Uuid(given + 3), Text_Bread, Text_1, <<35, 1>>, <<35, 1>>, FALSE) >>

\* parseFloat(value) || 0
ParsedOrZero(x) == IF x[1] = 0 \/ x = NaN THEN <<0, 1>> ELSE x
\* what a customer says of one item: the item, "<n> kg" when the quantity is
\* said, "<p> rupees" when the price is said (p is the total for the n kg),
\* and the numbers said after it
UtteranceText(u) ==
  u.name
    \o (IF u.hasQuantity THEN <<32>> \o IntToString(u.n) \o <<32>> \o Word_kg ELSE <<>>)
    \o (IF u.priced THEN <<32>> \o IntToString(u.p) \o <<32>> \o Word_rupees ELSE <<>>)
    \o Concat([k \in 1..Len(u.extra) |-> <<32>> \o IntToString(u.extra[k])])

\* the utterances joined by single spaces
Transcript(said) == JoinWithSpace([k \in 1..Len(said) |-> UtteranceText(said[k])] \o <<>>)

\* the items of the bills: the word, the kilograms and the total price
SpokenItems == << <<Word_tomato, 2, 50>>, <<Word_potato, 1, 20>>, <<Word_sugar, 2, 50>> >>
Spoken(i, priced) ==
  [name |-> SpokenItems[i][1], n |-> SpokenItems[i][2], p |-> SpokenItems[i][3],
   hasQuantity |-> TRUE, priced |-> priced, extra |-> <<>>]

\* a bill: at most MaxUtterances utterances, the priced ones first and after
\* them the ones whose price is not said yet
MaxUtterances == 3
Bills ==
  UNION {{[j \in 1..len |-> Spoken(items[j], j <= k)] :
            items \in [1..len -> 1..Len(SpokenItems)], k \in 0..len} :
         len \in 1..MaxUtterances}

\* other transcripts: a misheard word, a transcript without any word, the
\* empty one, a price followed by a mark, a word that names an inherited
\* property of every object, a price said before any item, a quantity said
\* before the item
OtherTranscripts ==
  {Text_onionz, Text_question, Text_empty, Text_live_question, Text_arisi_constructor,
   Text_price_first, Text_quantity_first}

\* the transcripts that grow: one that ends with a price expression, followed
\* by at most MaxAddedWords words more
CompleteTranscripts == {Text_priced_tomato, Text_price_after_keyword}
AddedWords == <<Word_five, Word_potato, Word_kg>>
MaxAddedWords == 2
Growths ==
  {[transcript |-> T, added |-> [k \in 1..Len(ws) |-> AddedWords[ws[k]]] \o <<>>] :
     T \in CompleteTranscripts,
     ws \in UNION {[1..n -> 1..Len(AddedWords)] : n \in 1..MaxAddedWords}}
Grown(g) == g.transcript \o <<32>> \o JoinWithSpace(g.added)

\* the segments of one priced item: with or without a quantity of 0 or 2
\* kg, with a total of 0 or 50, with or without a number after the price
PricedSegments ==
  {[name |-> SpokenItems[i][1], n |-> n, p |-> p,
    hasQuantity |-> q, priced |-> TRUE, extra |-> e] :
     i \in 1..Len(SpokenItems), n \in {0, 2}, p \in {0, 50}, q \in BOOLEAN,
     e \in {<<>>, <<7>>}}

\* the segments of at most MaxSegmentLength digits and punctuation marks:
\* 5 0 . ? -
DigitsAndPunctuation == {53, 48, 46, 63, 45}
MaxSegmentLength == 2
LetterFreeSegments ==
  UNION {[1..n -> DigitsAndPunctuation] : n \in 1..MaxSegmentLength}

OtherSegments == {Text_empty, Text_arisi_constructor, Text_half_kilo}

\* the segments with a number beyond every double, 10^MaxDoubleDigits, as the
\* price, as the quantity, or as both
HugeNumeral == <<49>> \o [i \in 1..MaxDoubleDigits |-> 48]
HugeSegments ==
  {Word_tomato \o <<32>> \o n \o <<32>> \o Word_kg \o <<32>> \o p \o <<32>> \o Word_rupees :
     n \in {<<50>>, HugeNumeral}, p \in {<<53, 48>>, HugeNumeral}}

\* the texts given to formalizeTamilForPDF: at most MaxWords words
FormalizeWords ==
  <<Word_kozhi, Word_thuvaram, Word_thakkali, Word_constructor, Word_proto>>
MaxWords == 2
FormalizeTexts ==
  {JoinWithSpace([k \in 1..Len(ws) |-> FormalizeWords[ws[k]]] \o <<>>) :
     ws \in UNION {[1..n -> 1..Len(FormalizeWords)] : n \in 0..MaxWords}}

\* the tokens given to the two matchers: nothing or a word of a lexicon,
\* followed by at most MaxSuffixLength letters z or s
MatcherWords == {Text_empty, Word_onion, Word_tomato, Word_thakkali}
SuffixLetters == {122, 115}
MaxSuffixLength == 2
Tokens ==
  {w \o suffix : w \in MatcherWords,
                 suffix \in UNION {[1..n -> SuffixLetters] : n \in 0..MaxSuffixLength}}

\* the strings given to calculateSimilarity: at most MaxStringLength letters
\* a or b
SimilarityLetters == {97, 98}
MaxStringLength == 3
ShortStrings == UNION {[1..n -> SimilarityLetters] : n \in 0..MaxStringLength}

\* the numbers written with at most MaxDigits digits 5 and 0, the first a 5
NumeralDigits == {53, 48}
MaxDigits == 3
Numerals ==
  {<<53>> \o rest : rest \in UNION {[1..n -> NumeralDigits] : n \in 0..(MaxDigits - 1)}}

\* every colloquial or misheard word of the two correction tables with the
\* word it stands for
CorrectionEntries ==
  {codeMixingMap[k] : k \in 1..Len(codeMixingMap)}
    \cup {TAMIL_ASR_CORRECTIONS[k] : k \in 1..Len(TAMIL_ASR_CORRECTIONS)}

\* every spoken number of the two tables with its digit string
NumberMapEntries ==
  {TAMIL_NUMBER_MAP[k] : k \in 1..Len(TAMIL_NUMBER_MAP)}
    \cup {ENGLISH_NUMBER_MAP[k] : k \in 1..Len(ENGLISH_NUMBER_MAP)}

\* the texts given to normalizeNumbers: at most MaxNumberWords words, each a
\* spoken number or a longer word that starts with one
NumberWords == <<Word_fifty, Word_two, Word_aimbadu, Word_fiftyfold>>
MaxNumberWords == 2
NumberTexts ==
  {JoinWithSpace([k \in 1..Len(ws) |-> NumberWords[ws[k]]] \o <<>>) :
     ws \in UNION {[1..n -> 1..Len(NumberWords)] : n \in 1..MaxNumberWords}}

(***************************************************************************)
(* The state                                                               *)
(***************************************************************************)
VARIABLES
  RATE_KEYWORDS,     \* the array of constants.ts, which line 655 sorts in place
  TAMIL_ITEM_NAMES,  \* the array of line 311, which lines 685 and 729 sort in place
  pc,                \* "idle", "called" (a call is entered) or "returned"
  call,              \* the function called, its argument, and what was said
  ret,               \* threw, and the value returned when it did not throw
  frame,             \* locals of parseContinuousInput at its end
  confirmedItems,    \* App.tsx line 52
  liveItems,         \* line 55
  editingItems,      \* line 68
  showEditInterface, \* line 67
  includePriceInVoice, \* line 66
  isListening,       \* line 64
  inlineEditId,      \* line 76, NULL for null
  inlineEditValues,  \* line 77
  autoCommittedRef,  \* line 114: the keys of autoCommittedRef.current
  uuids,             \* how many ids uuidv4 has given
  session            \* the listening session: what is being said, how many of
                     \* its words the recognizer has delivered, and how many
                     \* items the updates of the session have inserted into
                     \* and removed from confirmedItems

appVars == <<confirmedItems, liveItems, editingItems, showEditInterface, includePriceInVoice, isListening, inlineEditId, inlineEditValues, autoCommittedRef, uuids, session>>
vars == <<RATE_KEYWORDS, TAMIL_ITEM_NAMES, pc, call, ret, frame, appVars>>

NoCall == [fn |-> "none", arg |-> <<>>, said |-> <<>>]
NoResult == [threw |-> FALSE, value |-> <<>>]
NoFrame == [normalizedTranscript |-> <<>>, boundaries |-> 0, completed |-> 0,
            remaining |-> <<>>]

NoValues == [name |-> <<>>, quantity |-> <<>>, rate |-> <<>>]
NoSession == [script |-> 0, heard |-> 0, inserted |-> 0, removed |-> 0, sessions |-> 0, touched |-> 0]

Init ==
  /\ RATE_KEYWORDS = RATE_KEYWORDS_DECLARED
  /\ TAMIL_ITEM_NAMES = TAMIL_ITEM_NAMES_DECLARED
  /\ pc = "idle"
  /\ call = NoCall
  /\ ret = NoResult
  /\ frame = NoFrame
  /\ confirmedItems = <<>>
  /\ liveItems = <<>>
  /\ editingItems = <<>>
  /\ showEditInterface = FALSE
  /\ includePriceInVoice = TRUE
  /\ isListening = FALSE
  /\ inlineEditId = NULL
  /\ inlineEditValues = NoValues
  /\ autoCommittedRef = {}
  /\ uuids = 0
  /\ session = NoSession

\* a caller enters a function with an argument
Enter(fn, arg, said) ==
  /\ pc = "idle"
  /\ pc' = "called"
  /\ call' = [fn |-> fn, arg |-> arg, said |-> said]
  /\ UNCHANGED <<RATE_KEYWORDS, TAMIL_ITEM_NAMES, ret, frame>>
  /\ UNCHANGED appVars

CallParseContinuousInput ==
  \/ \E said \in Bills : Enter("parseContinuousInput", Transcript(said), said)
  \/ \E text \in OtherTranscripts : Enter("parseContinuousInput", text, <<>>)
  \/ \E text \in CompleteTranscripts \cup {Grown(g) : g \in Growths} :
       Enter("parseContinuousInput", text, <<>>)

CallParseSegment ==
  \/ \E u \in PricedSegments : Enter("parseSegment", UtteranceText(u), <<u>>)
  \/ \E text \in LetterFreeSegments \cup OtherSegments \cup HugeSegments :
       Enter("parseSegment", text, <<>>)

CallFormalizeTamilForPDF ==
  \E text \in FormalizeTexts : Enter("formalizeTamilForPDF", text, <<>>)

CallPerformSemanticVerification ==
  \E word \in Tokens : Enter("performSemanticVerification", word, <<>>)

CallFindClosestLexiconMatch ==
  \E word \in Tokens : Enter("findClosestLexiconMatch", word, <<>>)

\* both implementations are called with the same two strings
CallCalculateSimilarity ==
  \E str1 \in ShortStrings, str2 \in ShortStrings :
    Enter("calculateSimilarity", <<str1, str2>>, <<>>)

\* a transcript of one word of the correction tables
CallPreprocessTranscript ==
  \E entry \in CorrectionEntries : Enter("preprocessTranscript", entry[1], <<>>)

CallNormalizeNumbers ==
  \/ \E text \in NumberTexts : Enter("normalizeNumbers", text, <<>>)
  \/ \E entry \in NumberMapEntries : Enter("normalizeNumbers", entry[1], <<>>)
  \/ \E first \in Numerals, second \in Numerals :
       Enter("normalizeNumbers", first \o <<32>> \o second, <<>>)

\* parseContinuousInput runs from its first line to its return or throw
ParseContinuousInput ==
  /\ pc = "called"
  /\ call.fn = "parseContinuousInput"
  /\ \E c \in {parseContinuousInput(call.arg, RATE_KEYWORDS, TAMIL_ITEM_NAMES)} :
        /\ ret' = [threw |-> c.threw, value |-> c.results]
        /\ RATE_KEYWORDS' = c.RATE_KEYWORDS
        /\ TAMIL_ITEM_NAMES' = c.TAMIL_ITEM_NAMES
        /\ frame' = [normalizedTranscript |-> c.normalizedTranscript,
                     boundaries |-> c.boundaries, completed |-> c.completed,
                     remaining |-> c.remaining]
  /\ pc' = "returned"
  /\ UNCHANGED call
  /\ UNCHANGED appVars

ParseSegment ==
  /\ pc = "called"
  /\ call.fn = "parseSegment"
  /\ \E parsed \in {parseSegment(call.arg, RATE_KEYWORDS)} :
        ret' = [threw |-> parsed.threw,
                value |-> [name |-> parsed.name, quantity |-> parsed.quantity,
                           rate |-> parsed.rate]]
  /\ pc' = "returned"
  /\ UNCHANGED <<RATE_KEYWORDS, TAMIL_ITEM_NAMES, call, frame>>
  /\ UNCHANGED appVars

FormalizeTamilForPDF ==
  /\ pc = "called"
  /\ call.fn = "formalizeTamilForPDF"
  /\ \E text \in {formalizeTamilForPDF(call.arg)} :
        ret' = [threw |-> text = THREW, value |-> IF text = THREW THEN <<>> ELSE text]
  /\ pc' = "returned"
  /\ UNCHANGED <<RATE_KEYWORDS, TAMIL_ITEM_NAMES, call, frame>>
  /\ UNCHANGED appVars

\* performSemanticVerification reads the module array TAMIL_ITEM_NAMES as it
\* is when it is called
PerformSemanticVerification ==
  /\ pc = "called"
  /\ call.fn = "performSemanticVerification"
  /\ ret' = [threw |-> FALSE, value |-> performSemanticVerification(call.arg, TAMIL_ITEM_NAMES)]
  /\ pc' = "returned"
  /\ UNCHANGED <<RATE_KEYWORDS, TAMIL_ITEM_NAMES, call, frame>>
  /\ UNCHANGED appVars

\* findClosestLexiconMatch with its default threshold 0.75
FindClosestLexiconMatch ==
  /\ pc = "called"
  /\ call.fn = "findClosestLexiconMatch"
  /\ ret' = [threw |-> FALSE, value |-> findClosestLexiconMatch(call.arg, <<3, 4>>)]
  /\ pc' = "returned"
  /\ UNCHANGED <<RATE_KEYWORDS, TAMIL_ITEM_NAMES, call, frame>>
  /\ UNCHANGED appVars

\* calculateSimilarity of voiceParser.ts and calculateSimilarity of the
\* engine
CalculateSimilarity ==
  /\ pc = "called"
  /\ call.fn = "calculateSimilarity"
  /\ ret' = [threw |-> FALSE,
             value |-> [voiceParser |-> calculateSimilarity(call.arg[1], call.arg[2]),
                        engine |-> engineCalculateSimilarity(call.arg[1], call.arg[2])]]
  /\ pc' = "returned"
  /\ UNCHANGED <<RATE_KEYWORDS, TAMIL_ITEM_NAMES, call, frame>>
  /\ UNCHANGED appVars

\* preprocessTranscript reads the module arrays RATE_KEYWORDS and
\* TAMIL_ITEM_NAMES as they are when it is called
PreprocessTranscript ==
  /\ pc = "called"
  /\ call.fn = "preprocessTranscript"
  /\ ret' = [threw |-> FALSE,
             value |-> preprocessTranscript(call.arg, RATE_KEYWORDS, TAMIL_ITEM_NAMES)]
  /\ pc' = "returned"
  /\ UNCHANGED <<RATE_KEYWORDS, TAMIL_ITEM_NAMES, call, frame>>
  /\ UNCHANGED appVars

NormalizeNumbers ==
  /\ pc = "called"
  /\ call.fn = "normalizeNumbers"
  /\ ret' = [threw |-> FALSE, value |-> normalizeNumbers(call.arg)]
  /\ pc' = "returned"
  /\ UNCHANGED <<RATE_KEYWORDS, TAMIL_ITEM_NAMES, call, frame>>
  /\ UNCHANGED appVars

\* the caller has taken the result; the module arrays stay as the call left
\* them
Return ==
  /\ pc = "returned"
  /\ pc' = "idle"
  /\ call' = NoCall
  /\ ret' = NoResult
  /\ frame' = NoFrame
  /\ UNCHANGED <<RATE_KEYWORDS, TAMIL_ITEM_NAMES>>
  /\ UNCHANGED appVars

Next ==
  \/ CallParseContinuousInput
  \/ CallParseSegment
  \/ CallFormalizeTamilForPDF
  \/ ParseContinuousInput
  \/ ParseSegment
  \/ FormalizeTamilForPDF
  \/ CallPerformSemanticVerification
  \/ CallFindClosestLexiconMatch
  \/ CallCalculateSimilarity
  \/ CallNormalizeNumbers
  \/ CallPreprocessTranscript
  \/ PerformSemanticVerification
  \/ FindClosestLexiconMatch
  \/ CalculateSimilarity
  \/ NormalizeNumbers
  \/ PreprocessTranscript
  \/ Return

Spec == Init /\ [][Next]_vars

(***************************************************************************)
(* The App: what the customer says, and the handlers of App.tsx            *)
(***************************************************************************)
\* what is said in a listening session: the whole text, how many line items it
\* names, and whether a command is said in it
SessionScripts ==
  << [text |-> Text_same_item_twice, items |-> 2, command |-> FALSE],
     [text |-> Text_items_then_delete, items |-> 2, command |-> TRUE] >>
ScriptWords(s) == SplitOnSpaces(SessionScripts[s].text)

\* the transcript when the recognizer has delivered the first k words
Heard(s, k) == JoinWithSpace(SubSeq(ScriptWords(s), 1, k))

\* at most MaxSessions listening sessions; an item is added by hand while
\* fewer than MaxUuids ids were given; the customer starts to speak when at
\* most MaxItemsBeforeSpeaking ids were given, and touches the page at most
\* MaxTouches times, while the microphone is off
MaxSessions == 1
MaxUuids == 3
MaxItemsBeforeSpeaking == 0
MaxTouches == 4

\* what is typed into the fields of the manual and of the edit inputs
TypedNames == {Text_Rice}
TypedQuantities == {Text_empty, Text_3_kg}
TypedRates == {Text_10}

\* useCallback(..., []) at line 198 keeps the function of the first render,
\* which reads includePriceInVoice as useState(true) gave it at line 66
includePriceInVoiceAtMount == TRUE

\* lines 133-143: what a command does to confirmedItems
AfterCommand(command, items) ==
  IF command.type = "clear-all" THEN <<>>
  ELSE IF command.type = "delete-last" THEN WithoutLast(items)
  ELSE WithoutIndex(items, command.index)

\* lines 146-197 after parseContinuousInput has returned or thrown: an
\* exception leaves the state of the App as it was
AfterParsing(c, sorted) ==
  [confirmedItems |-> IF c.threw THEN confirmedItems
                      ELSE confirmedItems \o Committed(sorted.completedItems, uuids),
   liveItems |-> IF c.threw THEN liveItems ELSE sorted.incompleteItems,
   autoCommittedRef |-> IF c.threw THEN autoCommittedRef ELSE sorted.keys,
   uuids |-> IF c.threw THEN uuids ELSE uuids + Len(sorted.completedItems),
   RATE_KEYWORDS |-> c.RATE_KEYWORDS, TAMIL_ITEM_NAMES |-> c.TAMIL_ITEM_NAMES]
Parsing(c) ==
  AfterParsing(c, SortParsed(c.results, 1, includePriceInVoiceAtMount, autoCommittedRef,
                             <<>>, <<>>))

\* lines 125-198: the state after handleVoiceTranscriptChange(transcript)
Commanded(command) ==
  [confirmedItems |-> AfterCommand(command, confirmedItems), liveItems |-> <<>>,
   autoCommittedRef |-> {}, uuids |-> uuids,
   RATE_KEYWORDS |-> RATE_KEYWORDS, TAMIL_ITEM_NAMES |-> TAMIL_ITEM_NAMES]
AfterCommandCheck(transcript, command) ==
  IF command # NoCommand THEN Commanded(command)
  ELSE Parsing(parseContinuousInput(transcript, RATE_KEYWORDS, TAMIL_ITEM_NAMES))
handleVoiceTranscriptChange(transcript) ==
  IF transcript = <<>>
  THEN [confirmedItems |-> confirmedItems, liveItems |-> <<>>,
        autoCommittedRef |-> autoCommittedRef, uuids |-> uuids,
        RATE_KEYWORDS |-> RATE_KEYWORDS, TAMIL_ITEM_NAMES |-> TAMIL_ITEM_NAMES]
  ELSE AfterCommandCheck(transcript, parseDeleteCommand(transcript))

\* the customer starts to speak
StartListening ==
  /\ ~isListening
  /\ session.sessions < MaxSessions
  /\ uuids <= MaxItemsBeforeSpeaking
  /\ \E s \in 1..Len(SessionScripts) :
       session' = [script |-> s, heard |-> 0, inserted |-> 0, removed |-> 0,
                   sessions |-> session.sessions + 1, touched |-> session.touched]
  /\ isListening' = TRUE
  /\ UNCHANGED <<RATE_KEYWORDS, TAMIL_ITEM_NAMES, pc, call, ret, frame, confirmedItems, liveItems, editingItems, showEditInterface, includePriceInVoice, inlineEditId, inlineEditValues, autoCommittedRef, uuids>>

\* the recognizer delivers the transcript so far: the empty one at first,
\* then one that holds more words than the one before
VoiceTranscriptChange ==
  /\ isListening
  /\ \E k \in session.heard..Len(ScriptWords(session.script)) :
       /\ k > session.heard \/ k = 0
       /\ \E after \in {handleVoiceTranscriptChange(Heard(session.script, k))} :
            /\ confirmedItems' = after.confirmedItems
            /\ liveItems' = after.liveItems
            /\ autoCommittedRef' = after.autoCommittedRef
            /\ uuids' = after.uuids
            /\ RATE_KEYWORDS' = after.RATE_KEYWORDS
            /\ TAMIL_ITEM_NAMES' = after.TAMIL_ITEM_NAMES
            /\ session' = [session EXCEPT
                 !.heard = k,
                 !.inserted = @ + (after.uuids - uuids),
                 !.removed = @ + (Len(confirmedItems) + (after.uuids - uuids)
                                    - Len(after.confirmedItems))]
  /\ UNCHANGED <<pc, call, ret, frame, editingItems, showEditInterface, includePriceInVoice, isListening, inlineEditId, inlineEditValues>>

\* lines 200-227: the customer stops speaking
NamedLiveItems == SelectSeq(liveItems, LAMBDA item : item.name # <<>>)
handleVoiceListeningEnd ==
  /\ isListening
  /\ confirmedItems' = IF Len(liveItems) > 0
                       THEN confirmedItems \o Committed(NamedLiveItems, uuids)
                       ELSE confirmedItems
  /\ uuids' = IF Len(liveItems) > 0 THEN uuids + Len(NamedLiveItems) ELSE uuids
  /\ liveItems' = <<>>
  /\ editingItems' = IF Len(confirmedItems \o liveItems) > 0
                     THEN confirmedItems \o liveItems ELSE editingItems
  /\ showEditInterface' = (Len(confirmedItems \o liveItems) > 0 \/ showEditInterface)
  /\ autoCommittedRef' = {}
  /\ isListening' = FALSE
  /\ UNCHANGED <<RATE_KEYWORDS, TAMIL_ITEM_NAMES, pc, call, ret, frame, includePriceInVoice, inlineEditId, inlineEditValues, session>>

\* lines 228-249 with what was typed into the three inputs
ManualItem(name, quantity, rateVal) ==
  BillItem(Uuid(uuids + 1), name, IF quantity = <<>> THEN Text_1 ELSE quantity, rateVal,
           Multiply(rateVal, parseQuantityNumber(quantity)), FALSE)
handleManualAdd ==
  /\ ~isListening
  /\ session.touched < MaxTouches
  /\ session' = [session EXCEPT !.touched = @ + 1]
  /\ uuids < MaxUuids
  /\ \E name \in TypedNames, quantity \in TypedQuantities, rate \in TypedRates :
       /\ name # <<>>
       /\ confirmedItems' = Append(confirmedItems,
            ManualItem(name, quantity,
                       IF rate # <<>> THEN parseFloatOfText(rate) ELSE <<0, 1>>))
  /\ uuids' = uuids + 1
  /\ UNCHANGED <<RATE_KEYWORDS, TAMIL_ITEM_NAMES, pc, call, ret, frame, liveItems, editingItems, showEditInterface, includePriceInVoice, isListening, inlineEditId, inlineEditValues, autoCommittedRef>>

\* lines 257-264
handleAddSampleItems ==
  /\ ~isListening
  /\ session.touched < MaxTouches
  /\ session' = [session EXCEPT !.touched = @ + 1]
  /\ uuids + 3 <= MaxUuids
  /\ confirmedItems' = confirmedItems \o SampleItems(uuids)
  /\ uuids' = uuids + 3
  /\ UNCHANGED <<RATE_KEYWORDS, TAMIL_ITEM_NAMES, pc, call, ret, frame, liveItems, editingItems, showEditInterface, includePriceInVoice, isListening, inlineEditId, inlineEditValues, autoCommittedRef>>

\* lines 651-657: the delete button of a confirmed row
DeleteRow ==
  /\ ~isListening
  /\ session.touched < MaxTouches
  /\ session' = [session EXCEPT !.touched = @ + 1]
  /\ \E k \in 1..Len(confirmedItems) :
       confirmedItems' = SelectSeq(confirmedItems, LAMBDA i : i.id # confirmedItems[k].id)
  /\ UNCHANGED <<RATE_KEYWORDS, TAMIL_ITEM_NAMES, pc, call, ret, frame, liveItems, editingItems, showEditInterface, includePriceInVoice, isListening, inlineEditId, inlineEditValues, autoCommittedRef, uuids>>

\* lines 335-349.  The rate input has the type number: its value is the empty
\* string or a numeral, which the item keeps as a string and which counts in
\* a product as the number it spells, 0 for the empty string.
EditedItem(item, field, value) ==
  IF field = "name" THEN [item EXCEPT !.name = value]
  ELSE IF field = "quantity"
  THEN [item EXCEPT !.quantity = value,
                    !.total = Multiply(item.rate, parseQuantityNumber(value))]
  ELSE [item EXCEPT !.rate = ParsedOrZero(parseFloatOfText(value)),
                    !.total = Multiply(ParsedOrZero(parseFloatOfText(value)),
                                       parseQuantityNumber(item.quantity))]
handleEditItem ==
  /\ ~isListening
  /\ session.touched < MaxTouches
  /\ session' = [session EXCEPT !.touched = @ + 1]
  /\ showEditInterface
  /\ \E index \in 1..Len(editingItems) :
       \/ \E value \in TypedNames :
            editingItems' = [editingItems EXCEPT ![index] = EditedItem(@, "name", value)]
       \/ \E value \in TypedQuantities :
            editingItems' = [editingItems EXCEPT ![index] = EditedItem(@, "quantity", value)]
       \/ \E value \in TypedRates :
            editingItems' = [editingItems EXCEPT ![index] = EditedItem(@, "rate", value)]
  /\ UNCHANGED <<RATE_KEYWORDS, TAMIL_ITEM_NAMES, pc, call, ret, frame, confirmedItems, liveItems, showEditInterface, includePriceInVoice, isListening, inlineEditId, inlineEditValues, autoCommittedRef, uuids>>

\* lines 351-355
handleSaveEdits ==
  /\ ~isListening
  /\ session.touched < MaxTouches
  /\ session' = [session EXCEPT !.touched = @ + 1]
  /\ showEditInterface
  /\ confirmedItems' = SelectSeq(editingItems, LAMBDA item : trim(item.name) # <<>>)
  /\ liveItems' = <<>>
  /\ showEditInterface' = FALSE
  /\ UNCHANGED <<RATE_KEYWORDS, TAMIL_ITEM_NAMES, pc, call, ret, frame, editingItems, includePriceInVoice, isListening, inlineEditId, inlineEditValues, autoCommittedRef, uuids>>

\* lines 367-381: the pencil of a confirmed row
startInlineEdit ==
  /\ ~isListening
  /\ session.touched < MaxTouches
  /\ session' = [session EXCEPT !.touched = @ + 1]
  /\ \E k \in 1..Len(confirmedItems) :
       /\ ~confirmedItems[k].isLive
       /\ inlineEditId' = confirmedItems[k].id
       /\ inlineEditValues' = [name |-> confirmedItems[k].name,
                               quantity |-> confirmedItems[k].quantity,
                               rate |-> NumberToString(confirmedItems[k].rate)]
  /\ UNCHANGED <<RATE_KEYWORDS, TAMIL_ITEM_NAMES, pc, call, ret, frame, confirmedItems, liveItems, editingItems, showEditInterface, includePriceInVoice, isListening, autoCommittedRef, uuids>>

\* lines 588 and 604: the quantity or the rate of the row is typed over
setInlineEditValues ==
  /\ ~isListening
  /\ session.touched < MaxTouches
  /\ session' = [session EXCEPT !.touched = @ + 1]
  /\ inlineEditId # NULL
  /\ \/ \E value \in TypedQuantities : inlineEditValues' = [inlineEditValues EXCEPT !.quantity = value]
     \/ \E value \in TypedRates : inlineEditValues' = [inlineEditValues EXCEPT !.rate = value]
  /\ UNCHANGED <<RATE_KEYWORDS, TAMIL_ITEM_NAMES, pc, call, ret, frame, confirmedItems, liveItems, editingItems, showEditInterface, includePriceInVoice, isListening, inlineEditId, autoCommittedRef, uuids>>

\* lines 383-408
InlineEdited(item, rateVal, qtyNum) ==
  [item EXCEPT !.name = IF trim(inlineEditValues.name) = <<>> THEN @
                        ELSE trim(inlineEditValues.name),
               !.quantity = IF trim(inlineEditValues.quantity) = <<>> THEN @
                            ELSE trim(inlineEditValues.quantity),
               !.rate = rateVal,
               !.total = Multiply(rateVal, qtyNum)]
SavedInline(rateVal, qtyNum) ==
  [k \in 1..Len(confirmedItems) |->
     IF confirmedItems[k].id = inlineEditId
     THEN InlineEdited(confirmedItems[k], rateVal, qtyNum)
     ELSE confirmedItems[k]] \o <<>>
saveInlineEdit ==
  /\ ~isListening
  /\ session.touched < MaxTouches
  /\ session' = [session EXCEPT !.touched = @ + 1]
  /\ inlineEditId # NULL
  /\ confirmedItems' =
       SavedInline(ParsedOrZero(parseFloatOfText(inlineEditValues.rate)),
                   parseQuantityNumber(IF inlineEditValues.quantity = <<>> THEN Text_1
                                       ELSE inlineEditValues.quantity))
  /\ inlineEditId' = NULL
  /\ inlineEditValues' = NoValues
  /\ UNCHANGED <<RATE_KEYWORDS, TAMIL_ITEM_NAMES, pc, call, ret, frame, liveItems, editingItems, showEditInterface, includePriceInVoice, isListening, autoCommittedRef, uuids>>

\* line 510: the check box "Include Price in Voice"
setIncludePriceInVoice ==
  /\ ~isListening
  /\ session.touched < MaxTouches
  /\ session' = [session EXCEPT !.touched = @ + 1]
  /\ includePriceInVoice' = ~includePriceInVoice
  /\ UNCHANGED <<RATE_KEYWORDS, TAMIL_ITEM_NAMES, pc, call, ret, frame, confirmedItems, liveItems, editingItems, showEditInterface, isListening, inlineEditId, inlineEditValues, autoCommittedRef, uuids>>

AppNext ==
  \/ StartListening
  \/ VoiceTranscriptChange
  \/ handleVoiceListeningEnd
  \/ handleManualAdd
  \/ handleAddSampleItems
  \/ DeleteRow
  \/ handleEditItem
  \/ handleSaveEdits
  \/ startInlineEdit
  \/ setInlineEditValues
  \/ saveInlineEdit
  \/ setIncludePriceInVoice

AppSpec == Init /\ [][AppNext]_vars


(***************************************************************************)
(* Properties                                                              *)
(***************************************************************************)
\* a call of fn has run to its end and its result is not taken yet
Returned(fn) == pc = "returned" /\ call.fn = fn

\* the call is parseContinuousInput for a bill, and it returned a list
BillParsed == Returned("parseContinuousInput") /\ call.said # <<>> /\ ~ret.threw

\* p rupees for n kg, per kg
PerUnit(u) == Divide(<<u.p, 1>>, <<u.n, 1>>)

\* "<n> kg"
Kilograms(u) == IntToString(u.n) \o <<32>> \o Word_kg

\* the item that the utterance u of a bill stands for
ExpectedItem(u) ==
  [name |-> Capitalized(u.name), quantity |-> Kilograms(u),
   rate |-> IF u.priced THEN PerUnit(u) ELSE NULL]

\* the number of utterances of the bill whose price is said
PricedCount(said) == Cardinality({k \in 1..Len(said) : said[k].priced})

\* C1: when parseContinuousInput finds a price boundary, every returned item
\* with a quantity and a rate has as rate the total price said for an item
\* divided by its quantity, and every item said with a quantity and a price
\* is returned with a rate.
C1_RateIsTotalByQuantity ==
  (BillParsed /\ frame.boundaries >= 1) =>
    /\ \A j \in 1..Len(ret.value) :
         (ret.value[j].quantity # NULL /\ ret.value[j].rate # NULL) =>
           \E k \in 1..Len(call.said) :
             call.said[k].priced /\ ret.value[j].rate = PerUnit(call.said[k])
    /\ \A k \in 1..Len(call.said) :
         call.said[k].priced =>
           \E j \in 1..Len(ret.value) :
             /\ ret.value[j].quantity = Kilograms(call.said[k])
             /\ ret.value[j].rate # NULL

\* C2: a transcript of k utterances "<name> <n> kg <p> rupees" gives exactly
\* k items in the order said, the i-th with the name capitalized, the
\* quantity "<n> kg" and the rate p / n.
C2_OneItemPerUtterance ==
  (Returned("parseContinuousInput") /\ call.said # <<>>
     /\ PricedCount(call.said) = Len(call.said)) =>
    /\ ~ret.threw
    /\ Len(ret.value) = Len(call.said)
    /\ \A i \in 1..Len(call.said) : ret.value[i] = ExpectedItem(call.said[i])

\* C3: whenever parseSegment extracts a price expression with total P, the
\* rate it returns is P divided by the extracted quantity, which is 1 when
\* no quantity is extracted.
C3_RateIsPriceByQuantity ==
  (Returned("parseSegment") /\ ~ret.threw) =>
    \A q \in {QuantityOrFraction(ExtractQuantity(CleanSegment(call.arg)))} :
      \A p \in {ExtractPrice(q.text, RATE_KEYWORDS)} :
        p.totalPrice # NULL => ret.value.rate = Divide(p.totalPrice, q.quantityNumber)

\* C4: what parseContinuousInput returns for a transcript is what the first
\* call of the process returns for it, whatever calls were made before.
C4_IndependentOfHistory ==
  Returned("parseContinuousInput") =>
    \A c \in {parseContinuousInput(call.arg, RATE_KEYWORDS_DECLARED,
                                   TAMIL_ITEM_NAMES_DECLARED)} :
      ret = [threw |-> c.threw, value |-> c.results]

\* C5: no step of a call changes the contents or the order of the module
\* tables; RATE_KEYWORDS and TAMIL_ITEM_NAMES are the two that the code
\* assigns to.
C5_TablesNeverChange ==
  [][RATE_KEYWORDS' = RATE_KEYWORDS /\ TAMIL_ITEM_NAMES' = TAMIL_ITEM_NAMES]_vars

\* C6: when text that is not blank is left after the last price boundary,
\* or when without a price boundary the transcript is not blank, the parse
\* of that text is appended, so the list has an element after the completed
\* ones.
C6_TrailingTextAppended ==
  (Returned("parseContinuousInput") /\ ~ret.threw) =>
    /\ (frame.boundaries >= 1 /\ trim(frame.remaining) # <<>>) =>
         Len(ret.value) > frame.completed
    /\ (frame.boundaries = 0 /\ trim(frame.normalizedTranscript) # <<>>) =>
         Len(ret.value) >= 1

C8_NeverThrows == pc = "returned" => ~ret.threw

\* C9: for a segment of digits and punctuation marks only, parseSegment
\* returns no name.
C9_LetterFreeHasNoName ==
  (Returned("parseSegment") /\ ~ret.threw
     /\ \A i \in 1..Len(call.arg) : call.arg[i] \in DigitsAndPunctuation) =>
    ret.value.name = NULL

\* C10: formalizeTamilForPDF gives its own output back: the result of one
\* pass is a fixed point.
C10_FormalizeIdempotent ==
  (Returned("formalizeTamilForPDF") /\ ~ret.threw) =>
    formalizeTamilForPDF(ret.value) = ret.value

\* C11: a transcript "<name> <n> <unit>" without a price gives exactly one
\* result, with the name capitalized, the quantity "<n> <unit>" and no rate.
C11_UnpricedUtteranceIsOneItem ==
  (Returned("parseContinuousInput") /\ Len(call.said) = 1 /\ ~call.said[1].priced) =>
    /\ ~ret.threw
    /\ ret.value = <<ExpectedItem(call.said[1])>>

\* C12: the results are in the order of the transcript and nothing is
\* removed as a duplicate: in a bill whose price boundaries are the prices
\* said, the i-th result is the item of the i-th utterance, so that an
\* utterance said twice gives two equal results.
C12_ResultsInTranscriptOrder ==
  (BillParsed /\ frame.boundaries = PricedCount(call.said)) =>
    /\ Len(ret.value) = Len(call.said)
    /\ \A i \in 1..Len(call.said) : ret.value[i] = ExpectedItem(call.said[i])

\* a bill that says the same priced utterance twice and then another one has
\* given two equal results followed by a third
C12_SameUtteranceTwice ==
  /\ BillParsed
  /\ Len(call.said) = 3
  /\ call.said[1] = call.said[2]
  /\ call.said[1].priced
  /\ call.said[3] # call.said[1]
  /\ Len(ret.value) = 3
  /\ ret.value[1] = ret.value[2]
  /\ ret.value[3] = ExpectedItem(call.said[3])

\* C13: every element of the returned list but the last has a name or a
\* quantity.
C13_OnlyLastMayBeEmpty ==
  (Returned("parseContinuousInput") /\ ~ret.threw) =>
    \A j \in 1..(Len(ret.value) - 1) :
      ret.value[j].name # NULL \/ ret.value[j].quantity # NULL

\* "50 rupees tomato 2 kg 50 rupees": the segment "50 rupees" that ends at
\* the first of the two price boundaries has neither and is dropped
C13_PriceOnlySegmentDropped ==
  /\ Returned("parseContinuousInput")
  /\ call.arg = Text_price_first
  /\ ~ret.threw
  /\ frame.boundaries = 2
  /\ frame.completed = 1
  /\ Len(ret.value) = 1

\* C14: without a price the text before the first item name is parsed
\* together with that name: "<n> <unit> <item name>" gives exactly one result
\* with the quantity and the name.
C14_LeadInJoinsFirstName ==
  (Returned("parseContinuousInput") /\ call.arg = Text_quantity_first) =>
    /\ ~ret.threw
    /\ ret.value = <<ExpectedItem(Spoken(1, FALSE))>>

\* the token is below the threshold of performSemanticVerification against
\* every item of the array, below that of findClosestLexiconMatch against
\* every word of the lexicon
BelowItemThreshold(word, items) ==
  \A x \in 1..Len(items) :
    ~FracGeq(calculateSimilarity(trim(toLowerCase(word)), toLowerCase(items[x])), SIMILARITY_THRESHOLD)
BelowLexiconThreshold(word) ==
  \A x \in 1..Len(TAMIL_GROCERY_LEXICON) :
    ~FracGeq(engineCalculateSimilarity(word, TAMIL_GROCERY_LEXICON[x]), <<3, 4>>)

\* C15: a token whose similarity to every lexicon entry is below the threshold
\* (0.8 in performSemanticVerification, 0.75 in findClosestLexiconMatch) is
\* returned unchanged, and so is the empty token
C15_BelowThresholdUnchanged ==
  /\ (Returned("performSemanticVerification") /\ BelowItemThreshold(call.arg, TAMIL_ITEM_NAMES)) =>
       ret.value = call.arg
  /\ (Returned("findClosestLexiconMatch") /\ BelowLexiconThreshold(call.arg)) =>
       ret.value.match = call.arg
  /\ (Returned("performSemanticVerification") /\ call.arg = Text_empty) => ret.value = Text_empty
  /\ (Returned("findClosestLexiconMatch") /\ call.arg = Text_empty) => ret.value.match = Text_empty

\* "onionzz" is at 5/7 of "onion", below 0.8, and comes back as it was given
C15_NearMissKept ==
  /\ Returned("performSemanticVerification")
  /\ call.arg = Word_onion \o <<122, 122>>
  /\ FracGt(calculateSimilarity(call.arg, Word_onion), <<0, 1>>)
  /\ BelowItemThreshold(call.arg, TAMIL_ITEM_NAMES)
  /\ ret.value = call.arg

\* C16: of the items that tie for the highest similarity, the first in the
\* order of the declaration of TAMIL_ITEM_NAMES is returned, on every call
C16_TieBreakIsStable ==
  Returned("performSemanticVerification") =>
    ret.value = performSemanticVerification(call.arg, TAMIL_ITEM_NAMES_DECLARED)

\* the Levenshtein distance by its recurrence, and 1 - distance / max length
RECURSIVE EditDistance(_, _)
EditDistance(a, b) ==
  IF a = <<>> THEN Len(b)
  ELSE IF b = <<>> THEN Len(a)
  ELSE Min2(Min2(EditDistance(Tail(a), b) + 1, EditDistance(a, Tail(b)) + 1),
            EditDistance(Tail(a), Tail(b)) + (IF Head(a) = Head(b) THEN 0 ELSE 1))
OneMinusDistanceByLength(a, b) ==
  IF Max2(Len(a), Len(b)) = 0 THEN <<1, 1>>
  ELSE <<Max2(Len(a), Len(b)) - EditDistance(a, b), Max2(Len(a), Len(b))>>

\* C17: both implementations of calculateSimilarity return
\* 1 - levenshtein(a, b) / max(len(a), len(b)), 1 for two empty strings; they
\* agree, the value is in [0, 1], the same for (b, a), and 1 exactly when a = b
C17_SimilarityIsOneMinusDistance ==
  Returned("calculateSimilarity") =>
    /\ ret.value.voiceParser = OneMinusDistanceByLength(call.arg[1], call.arg[2])
    /\ ret.value.engine = OneMinusDistanceByLength(call.arg[1], call.arg[2])
    /\ ret.value.voiceParser = ret.value.engine
    /\ FracGeq(ret.value.voiceParser, <<0, 1>>) /\ FracGeq(<<1, 1>>, ret.value.voiceParser)
    /\ ret.value.voiceParser = calculateSimilarity(call.arg[2], call.arg[1])
    /\ ret.value.engine = engineCalculateSimilarity(call.arg[2], call.arg[1])
    /\ FracEq(ret.value.voiceParser, <<1, 1>>) <=> (call.arg[1] = call.arg[2])

\* "ab" and "bab" are one insertion apart: both implementations return 2/3
C17_OneEditApart ==
  /\ Returned("calculateSimilarity")
  /\ call.arg = <<(<<97, 98>>), (<<98, 97, 98>>)>>
  /\ ret.value.voiceParser = <<2, 3>>
  /\ ret.value.engine = <<2, 3>>

\* how many of the space-delimited words of a text are the given word
Occurrences(word, text) ==
  Cardinality({k \in 1..Len(SplitOnSpaces(text)) : SplitOnSpaces(text)[k] = word})

\* C18: normalizeNumbers leaves no space- or edge-delimited spoken number
\* word in its result, also when the same word is said twice in a row, and
\* leaves a longer word that holds a number word as it was
C18_EveryNumberWordReplaced ==
  Returned("normalizeNumbers") =>
    /\ Occurrences(Word_fifty, ret.value) = 0
    /\ Occurrences(Word_two, ret.value) = 0
    /\ Occurrences(Word_aimbadu, ret.value) = 0
    /\ Occurrences(Word_fiftyfold, ret.value) = Occurrences(Word_fiftyfold, call.arg)

\* C19: a price expression of value 0 gives the rate 0, whatever other number
\* the segment holds; without a price expression and without a number that
\* stands alone the rate is null; name and quantity are never the empty string
C19_ZeroPriceIsKept ==
  (Returned("parseSegment") /\ ~ret.threw) =>
    \A q \in {QuantityOrFraction(ExtractQuantity(CleanSegment(call.arg)))} :
      \A p \in {ExtractPrice(q.text, RATE_KEYWORDS)} :
        /\ p.totalPrice = <<0, 1>> => ret.value.rate = <<0, 1>>
        /\ (p.totalPrice = NULL /\ \A i \in 1..Len(p.text) : StandaloneEnd(p.text, i) = 0) =>
             ret.value.rate = NULL
        /\ ret.value.name # Text_empty
        /\ ret.value.quantity # Text_empty

\* C20: the quantity returned for a segment that says "<n> kg" is the number
\* as it was said and the unit, joined by one space, also for n = 0
C20_QuantityAsSpoken ==
  (Returned("parseSegment") /\ Len(call.said) = 1 /\ call.said[1].hasQuantity) =>
    /\ ~ret.threw
    /\ ret.value.quantity = IntToString(call.said[1].n) \o <<32>> \o Word_kg

\* C21: the results for a transcript that ends with a price expression are
\* the first results for the same transcript followed by more words
C21_CompletedItemsStay ==
  Returned("parseContinuousInput") =>
    \A g \in {x \in Growths : Grown(x) = call.arg} :
      \A c \in {parseContinuousInput(g.transcript, RATE_KEYWORDS, TAMIL_ITEM_NAMES)} :
        /\ ~ret.threw
        /\ ~c.threw
        /\ Len(c.results) <= Len(ret.value)
        /\ SubSeq(ret.value, 1, Len(c.results)) = c.results

\* C22: a key of TAMIL_NUMBER_MAP or ENGLISH_NUMBER_MAP, of one word or of
\* several, is normalized to the digit string its table gives for it
C22_EveryKeyGivesItsValue ==
  Returned("normalizeNumbers") =>
    \A entry \in {e \in NumberMapEntries : e[1] = call.arg} : ret.value = entry[2]

\* C23: of two numbers side by side, normalizeNumbers merges a two-digit
\* multiple of ten followed by a single digit into their sum, and leaves
\* every other pair as it is
C23_OnlyTensAndUnitsMerge ==
  Returned("normalizeNumbers") =>
    \A pair \in {x \in Numerals \X Numerals : x[1] \o <<32>> \o x[2] = call.arg} :
      ret.value = IF Len(pair[1]) = 2 /\ pair[1][2] = 48 /\ Len(pair[2]) = 1
                  THEN IntToString(parseInt(pair[1]) + parseInt(pair[2]))
                  ELSE call.arg

\* C24: a transcript that is one key of codeMixingMap or of
\* TAMIL_ASR_CORRECTIONS is preprocessed to the word the table gives for it
C24_CorrectionKeyReplaced ==
  Returned("preprocessTranscript") =>
    \A entry \in {e \in CorrectionEntries : e[1] = call.arg} : ret.value = entry[2]

\* the divisor that parseSegment uses for the segment of the call
DivisorOf(segment) == QuantityOrFraction(ExtractQuantity(CleanSegment(segment))).quantityNumber

\* a number is written in the text with more than n digits and dots
HasLongNumeral(text, n) ==
  \E i \in 1..(Len(text) - n) : \A j \in i..(i + n) : IsDigit(text[j]) \/ text[j] = 46
SafeNumeralLength == 150

\* C25 as stated: the rate that parseSegment returns is a finite number that
\* is not negative, never NaN and never Infinity
C25_RateAlwaysFinite ==
  (Returned("parseSegment") /\ ~ret.threw /\ ret.value.rate # NULL) =>
    ret.value.rate[1] >= 0 /\ ret.value.rate[2] > 0

\* C25: the divisor quantityNumber of parseSegment is greater than 0 in every
\* call, a returned rate is never negative, and it is a finite number when no
\* number of the segment is written with more than SafeNumeralLength
\* characters
C25_DivisorPositive ==
  (Returned("parseSegment") /\ ~ret.threw) =>
    /\ DivisorOf(call.arg)[1] > 0 /\ DivisorOf(call.arg)[2] >= 0
    /\ ret.value.rate # NULL => ret.value.rate[1] >= 0 /\ ret.value.rate[2] >= 0
    /\ (ret.value.rate # NULL /\ ~HasLongNumeral(call.arg, SafeNumeralLength)) =>
         ret.value.rate[2] > 0

\* "0 kg" is said with a price of 50: the divisor is 1 and the rate 50
C25_ZeroQuantityDividesByOne ==
  /\ Returned("parseSegment")
  /\ Len(call.said) = 1 /\ call.said[1].hasQuantity /\ call.said[1].n = 0
  /\ call.said[1].p = 50 /\ call.said[1].extra = <<>>
  /\ DivisorOf(call.arg) = <<1, 1>>
  /\ ret.value.rate = <<50, 1>>

\* C26: within one listening session in which no command is said, each spoken
\* line item is inserted into confirmedItems at most once, and when the whole
\* of what was said has been heard every spoken line item has been inserted.
AllHeard == session.heard = Len(ScriptWords(session.script))
C26_EachItemInsertedOnce ==
  session.script # 0 =>
    /\ session.inserted <= SessionScripts[session.script].items
    /\ (AllHeard /\ ~SessionScripts[session.script].command) =>
         session.inserted = SessionScripts[session.script].items

\* C27: every item of confirmedItems has an id that no other item of
\* confirmedItems has, and isLive = false.
C27_ConfirmedIdsUniqueNotLive ==
  \A k \in 1..Len(confirmedItems) :
    /\ ~confirmedItems[k].isLive
    /\ \A j \in 1..Len(confirmedItems) : confirmedItems[j].id = confirmedItems[k].id => j = k

\* C28: every item of confirmedItems has total = rate * parseQuantityNumber(quantity).
C28_TotalIsRateTimesQuantity ==
  \A k \in 1..Len(confirmedItems) :
    confirmedItems[k].total =
      Multiply(confirmedItems[k].rate, parseQuantityNumber(confirmedItems[k].quantity))

\* C29: a transcript update handled while includePriceInVoice is false builds
\* only bill items of rate 0 and total 0: the live items it leaves and the
\* items it commits.
BuiltWithoutPrice(item) == item.rate = <<0, 1>> /\ item.total = <<0, 1>>
C29_UncheckedGivesRateZero ==
  [][(~includePriceInVoice /\ session'.heard # session.heard) =>
       /\ \A k \in 1..Len(liveItems') : BuiltWithoutPrice(liveItems'[k])
       /\ \A k \in 1..Len(confirmedItems') :
            (confirmedItems'[k].id[1] = 1 /\ confirmedItems'[k].id[2] > uuids) =>
              BuiltWithoutPrice(confirmedItems'[k])]_vars

\* C30: in a session in which a command is said once, confirmedItems loses at
\* most one item in total.
C30_CommandRemovesOneItem ==
  (session.script # 0 /\ SessionScripts[session.script].command) => session.removed <= 1
====
